---------------------------- MODULE Spec2Model ----------------------------
(***************************************************************************)
(* Aviation tools: the calculators behind the form-based UI, in the three  *)
(* framework variants the repository holds (Angular components under       *)
(* src/app, React function components, and the class-based DOM tools).     *)
(*                                                                         *)
(* Numbers.  Feet and degrees Celsius are integers.  A form field that     *)
(* parseFloat cannot read is the value NaN.  A quotient the code leaves as *)
(* a float is kept exact as a fraction [num, den] with den > 0.  The unit  *)
(* conversions, and the minima with fractions of a foot, are computed in   *)
(* IEEE 754 doubles modelled bit for bit.                                  *)
(***************************************************************************)
EXTENDS Integers, Sequences, FiniteSets, TLC

VARIABLES
    variant,    \* which of the three implementations is running
    tool,       \* the tool mounted in the tool container ("none" before a choice)
    input,      \* the form fields read by the last handler run
    result,     \* the result the mounted tool has published (Null: none yet)
    alertMsg,   \* the alert the last handler run raised, or the error message the
                \* fly-by tool shows ("" when there was none)
    rendered,   \* for each tool, its render() calls not yet followed by destroy()
    theme,      \* the theme the application holds (signal, state or field)
    applied,    \* the data-theme attribute of the document ("none": not set yet)
    store,      \* the value localStorage holds under 'aviation-tools-theme'
    copiedField,\* the result field that shows 'Copied!' ("none": no field does)
    copies,     \* the copy calls that wait for copyToClipboard: their fields
    timers,     \* the reset timers that have not fired yet: the times they are due
    now,        \* the time in milliseconds (it advances by TickMs)
    lastCopy    \* the last successful copy since the last conversion: field and time

shellVars == <<rendered, theme, applied, store>>
copyVars == <<copiedField, copies, timers, now, lastCopy>>

vars == <<variant, tool, input, result, alertMsg, shellVars, copyVars>>

\* A conversion that succeeds takes the 'Copied!' mark off (copiedField.set(null)).
CopiedCleared ==
    /\ copiedField' = "none"
    /\ lastCopy' = [field |-> "none"]
    /\ UNCHANGED <<copies, timers, now>>

Variants == {"angular", "react", "vanilla"}

Null == [kind |-> "null"]
NoInput == [kind |-> "none"]
NoCopy == [field |-> "none"]
\* parseFloat of a field that holds no number.  The value is outside every range
\* of form values; the handlers test IsNaN before any comparison, as the code does.
NaN == -(10 ^ 6)

IsNaN(v) == v = NaN

-----------------------------------------------------------------------------
(* Exact fractions for the float quotients of the code.                     *)

Rat(n, d) == IF d < 0 THEN [num |-> -n, den |-> -d] ELSE [num |-> n, den |-> d]

RatSign(r) == IF r.num > 0 THEN 1 ELSE IF r.num < 0 THEN -1 ELSE 0

\* a + r for an integer a
RatAddInt(a, r) == [num |-> a * r.den + r.num, den |-> r.den]

-----------------------------------------------------------------------------
(* Minima (DA/MDA, DH/MDH)                                                  *)

\* Mutant: the aircraft minima never override the published values.
calculateMinima_NoOverride(oca, och, aircraftMinima, operatorMargin) ==
    [decisionAltitude   |-> oca + operatorMargin,
     decisionHeight     |-> och + operatorMargin,
     usesAircraftMinima |-> och < aircraftMinima,
     aircraftAdjustment |-> 0]

\* Mutant: the comparison of OCH and aircraft minima is the wrong way round.
calculateMinima_SwappedCompare(oca, och, aircraftMinima, operatorMargin) ==
    LET usesAircraftMinima == och > aircraftMinima
        aircraftAdjustment == IF usesAircraftMinima THEN aircraftMinima - och ELSE 0
    IN  [decisionAltitude   |-> oca + aircraftAdjustment + operatorMargin,
         decisionHeight     |-> (IF usesAircraftMinima THEN aircraftMinima ELSE och)
                                + operatorMargin,
         usesAircraftMinima |-> usesAircraftMinima,
         aircraftAdjustment |-> aircraftAdjustment]

calculateMinima(oca, och, aircraftMinima, operatorMargin) ==
    LET usesAircraftMinima == och < aircraftMinima
        aircraftAdjustment == IF usesAircraftMinima THEN aircraftMinima - och ELSE 0
        decisionAltitude   == oca + aircraftAdjustment + operatorMargin
        decisionHeight     == (IF usesAircraftMinima THEN aircraftMinima ELSE och)
                              + operatorMargin
    IN  [decisionAltitude   |-> decisionAltitude,
         decisionHeight     |-> decisionHeight,
         usesAircraftMinima |-> usesAircraftMinima,
         aircraftAdjustment |-> aircraftAdjustment]

\* The fields the negative-value check of each variant looks at.
MinimaCheckedFields(v, oca, och, aircraftMinima, operatorMargin) ==
    IF v = "angular"
    THEN {och, aircraftMinima, operatorMargin}
    ELSE {oca, och, aircraftMinima, operatorMargin}

\* Form values of the interactive specification (a few per field) ...
MinimaOca == {NaN, -50, 1200}
MinimaOch == {NaN, -50, 150, 400}
MinimaAircraft == {NaN, -50, 300}
MinimaMargin == {NaN, -50, 0, 25}
\* ... and of the one-shot specification of the calculation (every order of OCH
\* and aircraft minima, zero, and a negative value in every field).
MinimaFeet == {NaN, -50, 0, 150, 300, 400}

MinimaInput(oca, och, aircraftMinima, operatorMargin) ==
    [kind |-> "minima", oca |-> oca, och |-> och,
     aircraftMinima |-> aircraftMinima, operatorMargin |-> operatorMargin]

MinimaCalculate(oca, och, aircraftMinima, operatorMargin) ==
    /\ tool = "minima"
    /\ input' = MinimaInput(oca, och, aircraftMinima, operatorMargin)
    /\ IF \E x \in {oca, och, aircraftMinima, operatorMargin} : IsNaN(x)
       THEN /\ alertMsg' = "Please fill in all fields with valid numbers"
            /\ UNCHANGED result
       ELSE IF \E x \in MinimaCheckedFields(variant, oca, och, aircraftMinima,
                                            operatorMargin) : x < 0
       THEN /\ alertMsg' = "Values cannot be negative"
            /\ UNCHANGED result
       ELSE /\ alertMsg' = ""
            /\ result' = [kind |-> "minima"] @@
                         calculateMinima(oca, och, aircraftMinima, operatorMargin)
    /\ UNCHANGED <<variant, tool, shellVars, copyVars>>

-----------------------------------------------------------------------------
(* Temperature / altitude correction                                        *)

\* React and Angular: correction = height * (isaTemp - temperature) / (temperature + 273).
\* Numerator and denominator are both scaled by 1000 so that isaTemp stays an integer.
calculateTemperatureCorrection_Shared(decisionAltitude, airportAltitude, temperature) ==
    LET heightAboveAirport == decisionAltitude - airportAltitude
        isaTemp1000        == 15000 - airportAltitude * 2
        actualTempKelvin   == temperature + 273
        correction         == Rat(heightAboveAirport * (isaTemp1000 - temperature * 1000),
                                  actualTempKelvin * 1000)
    IN  [correctedAltitude |-> RatAddInt(decisionAltitude, correction),
         correction        |-> correction]

\* The class-based tool: correction = height * (temperature - isaTemp) / (isaTemp + 273.15).
calculateTemperatureCorrection_Vanilla(decisionAltitude, airportAltitude, temperature) ==
    LET heightAboveAirport == decisionAltitude - airportAltitude
        isaTemp1000        == 15000 - airportAltitude * 2
        tempDeviation1000  == temperature * 1000 - isaTemp1000
        isaKelvin1000      == isaTemp1000 + 273150
        correction         == Rat(heightAboveAirport * tempDeviation1000, isaKelvin1000)
    IN  [correctedAltitude |-> RatAddInt(decisionAltitude, correction),
         correction        |-> correction]

calculateTemperatureCorrection(v, decisionAltitude, airportAltitude, temperature) ==
    IF v = "vanilla"
    THEN calculateTemperatureCorrection_Vanilla(decisionAltitude, airportAltitude, temperature)
    ELSE calculateTemperatureCorrection_Shared(decisionAltitude, airportAltitude, temperature)

\* Whether the handler of variant v checks airportElevation < decisionAltitude.
AltitudeChecksElevation(v) == v # "vanilla"

AltitudeFeet == {NaN, 0, 1000, 1500}
AltitudeTemps == {NaN, -15, 13, 25}

AltitudeInput(decisionAlt, airportAlt, temperature) ==
    [kind |-> "altitude-correction", decisionAlt |-> decisionAlt,
     airportAlt |-> airportAlt, temperature |-> temperature]

AltitudeCalculate(decisionAlt, airportAlt, temperature) ==
    /\ tool = "altitude-correction"
    /\ input' = AltitudeInput(decisionAlt, airportAlt, temperature)
    /\ IF IsNaN(decisionAlt) \/ IsNaN(airportAlt) \/ IsNaN(temperature)
       THEN /\ alertMsg' = "Please fill in all fields with valid numbers"
            /\ UNCHANGED result
       ELSE IF AltitudeChecksElevation(variant) /\ airportAlt >= decisionAlt
       THEN /\ alertMsg' = "Airport elevation must be lower than DA/MDA"
            /\ UNCHANGED result
       ELSE /\ alertMsg' = ""
            /\ result' = [kind |-> "altitude-correction"] @@
                         calculateTemperatureCorrection(variant, decisionAlt,
                                                        airportAlt, temperature)
    /\ UNCHANGED <<variant, tool, shellVars, copyVars>>

-----------------------------------------------------------------------------
(* Coordinate conversion: text                                              *)
(*                                                                          *)
(* A string is a sequence of characters; a character is a one-symbol string.*)
(* The three non-ASCII characters of the source are written by name: "deg"  *)
(* is the degree sign, "uring" the letter u with a ring above (the Angular   *)
(* component writes it where the others write the degree sign) and "URING"  *)
(* its upper case.                                                          *)

DigitChars == {"0", "1", "2", "3", "4", "5", "6", "7", "8", "9"}
DirChars == {"N", "S", "E", "W"}
SpaceChars == {" "}

DigitValue(c) ==
    CASE c = "0" -> 0 [] c = "1" -> 1 [] c = "2" -> 2 [] c = "3" -> 3 [] c = "4" -> 4
      [] c = "5" -> 5 [] c = "6" -> 6 [] c = "7" -> 7 [] c = "8" -> 8 [] c = "9" -> 9

DigitChar(n) ==
    CASE n = 0 -> "0" [] n = 1 -> "1" [] n = 2 -> "2" [] n = 3 -> "3" [] n = 4 -> "4"
      [] n = 5 -> "5" [] n = 6 -> "6" [] n = 7 -> "7" [] n = 8 -> "8" [] n = 9 -> "9"

\* String.prototype.toUpperCase, on the letters the model's strings hold.
UpperChar(c) ==
    CASE c = "n" -> "N" [] c = "s" -> "S" [] c = "e" -> "E" [] c = "w" -> "W"
      [] c = "o" -> "O" [] c = "d" -> "D" [] c = "x" -> "X"
      [] c = "u" -> "U" [] c = "v" -> "V" [] c = "r" -> "R"
      [] c = "uring" -> "URING"
      [] OTHER -> c

toUpperCase(s) == [i \in DOMAIN s |-> UpperChar(s[i])]

\* String.prototype.trim
trim(s) ==
    LET keep == {i \in DOMAIN s : s[i] \notin SpaceChars}
    IN  IF keep = {} THEN <<>>
        ELSE LET first == CHOOSE i \in keep : \A j \in keep : i <= j
                 last  == CHOOSE i \in keep : \A j \in keep : i >= j
             IN  SubSeq(s, first, last)

\* value.replace(/\s+/g, '')
RECURSIVE removeWhitespace(_)
removeWhitespace(s) ==
    IF s = <<>> THEN <<>>
    ELSE IF Head(s) \in SpaceChars THEN removeWhitespace(Tail(s))
    ELSE <<Head(s)>> \o removeWhitespace(Tail(s))

\* The character at position p, "" past the end.
At(s, p) == IF p >= 1 /\ p <= Len(s) THEN s[p] ELSE ""

AllIn(s, from, to, C) == \A i \in from..to : s[i] \in C

\* The decimal digits of a natural number, and a digit string's value.
RECURSIVE Digits(_)
Digits(n) == IF n < 10 THEN <<DigitChar(n)>> ELSE Digits(n \div 10) \o <<DigitChar(n % 10)>>

RECURSIVE DigitsValue(_)
DigitsValue(s) ==
    IF s = <<>> THEN 0 ELSE DigitsValue(SubSeq(s, 1, Len(s) - 1)) * 10 + DigitValue(s[Len(s)])

RECURSIVE Pow10(_)
Pow10(k) == IF k = 0 THEN 1 ELSE 10 * Pow10(k - 1)

\* The last k digits of n, zero-padded.
RECURSIVE PadDigits(_, _)
PadDigits(n, k) == IF k = 0 THEN <<>> ELSE PadDigits(n \div 10, k - 1) \o <<DigitChar(n % 10)>>

\* Number.prototype.toFixed(k) of scaled / 10^k, for scaled >= 0.
ToFixed(scaled, k) ==
    Digits(scaled \div Pow10(k)) \o <<".">> \o PadDigits(scaled % Pow10(k), k)

-----------------------------------------------------------------------------
(* Coordinate conversion: numbers                                           *)
(*                                                                          *)
(* A number read from text is a decimal [nan, neg, ip, fnum, fden]: sign,    *)
(* integer part and fraction fnum / fden (fden a power of ten); neg with     *)
(* ip = 0 and fnum = 0 is the float -0.  An angle is an integer number of   *)
(* units, UnitsPerDegree to the degree: thousandths of a minute, tenths of  *)
(* a second and millionths of a degree are all whole numbers of units.      *)

UnitsPerDegree == 9 * 10 ^ 6
UnitsPerMinute == UnitsPerDegree \div 60
UnitsPerSecond == UnitsPerDegree \div 3600

\* Whole degrees above this are kept as this many degrees (outside every valid
\* range), so that an angle in units stays a 32-bit integer.
MaxWholeDegrees == 200

NaNDecimal == [nan |-> TRUE]

Decimal(neg, ip, fnum, fden) ==
    [nan |-> FALSE, neg |-> neg, ip |-> ip, fnum |-> fnum, fden |-> fden]

\* digits(.digits)?, with a leading "-" when allowNeg
IsLiteral(lit, allowNeg) ==
    LET neg   == allowNeg /\ lit # <<>> /\ lit[1] = "-"
        body  == IF neg THEN Tail(lit) ELSE lit
        dots  == {i \in DOMAIN body : body[i] = "."}
    IN  /\ body # <<>>
        /\ Cardinality(dots) <= 1
        /\ \A i \in DOMAIN body : body[i] \in DigitChars \cup {"."}
        /\ \A i \in dots : i > 1 /\ i < Len(body)

\* d < 0 as the float comparison has it: false for -0.
DecimalNegative(d) == d.neg /\ (d.ip > 0 \/ d.fnum > 0)

\* |d| in units, perOne units to one.
DecimalUnits(d, perOne) ==
    d.ip * perOne +
    (IF perOne % d.fden = 0 THEN d.fnum * (perOne \div d.fden)
                            ELSE (d.fnum * perOne) \div d.fden)

\* |d| degrees in units, whole degrees capped at MaxWholeDegrees.
DegreeUnits(d) ==
    IF d.ip >= MaxWholeDegrees THEN MaxWholeDegrees * UnitsPerDegree
    ELSE DecimalUnits(d, UnitsPerDegree)

Abs(x) == IF x < 0 THEN -x ELSE x

-----------------------------------------------------------------------------
(* Coordinate conversion: the regular expressions of parseCoordinateString  *)
(*                                                                          *)
(* A pattern is a sequence of steps.  A path through a string is the        *)
(* sequence of positions before the first step and after each step.  Every  *)
(* step is greedy and its alternatives are ordered by how far they reach,   *)
(* so the match the backtracking matcher returns for a pattern anchored at  *)
(* both ends is the lexicographically greatest path that ends at the end of *)
(* the string.                                                              *)

Opt(C)   == [type |-> "opt",  chars |-> C]       \* c?   for c in C
Req(C)   == [type |-> "req",  chars |-> C]       \* [C]
Star(C)  == [type |-> "star", chars |-> C]       \* [C]*
Num(neg) == [type |-> "num",  neg |-> neg]       \* -?\d+(?:\.\d+)?  ("-" only if neg)
Group(inner) == [type |-> "group", inner |-> inner]   \* (?: inner )?

\* The positions step can reach from position p of s.
StepEnds(s, p, step) ==
    CASE step.type = "opt"  -> {p} \cup (IF At(s, p) \in step.chars THEN {p + 1} ELSE {})
      [] step.type = "req"  -> IF At(s, p) \in step.chars THEN {p + 1} ELSE {}
      [] step.type = "star" -> {q \in p..(Len(s) + 1) : AllIn(s, p, q - 1, step.chars)}
      [] step.type = "num"  -> {q \in (p + 1)..(Len(s) + 1) :
                                   IsLiteral(SubSeq(s, p, q - 1), step.neg)}

Last(path) == path[Len(path)]

\* The paths that extend a path of paths by the steps from the k-th on.
RECURSIVE ExtendPaths(_, _, _, _)
ExtendPaths(s, paths, steps, k) ==
    IF k > Len(steps) THEN paths
    ELSE LET step == steps[k]
             next ==
                 IF step.type = "group"
                 THEN UNION {
                        {path \o [i \in 1..Len(step.inner) |-> Last(path)]} \cup
                        {path \o Tail(taken) :
                            taken \in ExtendPaths(s, {<<Last(path)>>}, step.inner, 1)}
                        : path \in paths}
                 ELSE UNION {{Append(path, q) : q \in StepEnds(s, Last(path), step)}
                             : path \in paths}
         IN  ExtendPaths(s, next, steps, k + 1)

LexGreater(a, b) ==
    \E i \in DOMAIN a : a[i] > b[i] /\ \A j \in 1..(i - 1) : a[j] = b[j]

\* The path the matcher returns among the complete paths, if there is one.
PreferredPath(full) ==
    IF full = {} THEN [matched |-> FALSE]
    ELSE [matched |-> TRUE,
          path    |-> CHOOSE a \in full : \A b \in full \ {a} : LexGreater(a, b)]

\* String.prototype.match for ^steps$ : [matched, path]
Match(s, steps) ==
    PreferredPath({path \in ExtendPaths(s, {<<1>>}, steps, 1) : Last(path) = Len(s) + 1})

\* The degree marks the pattern of variant v accepts between degrees and minutes.
\* The Angular pattern lists the degree sign, u-ring, o and d.
DegreeMarks(v) == IF v = "angular" THEN {"deg", "uring", "o", "d"} ELSE {"deg"}

\* React and Angular:
\* ^(N|S|E|W)?\s*(-?\d+(?:\.\d+)?)\s*MARK?\s*(\d+(?:\.\d+)?)\s*'?\s*(?:(\d+(?:\.\d+)?)\s*"?)?\s*(N|S|E|W)?$
SharedPattern(v) ==
    << Opt(DirChars), Star(SpaceChars), Num(TRUE), Star(SpaceChars),
       Opt(DegreeMarks(v)), Star(SpaceChars), Num(FALSE), Star(SpaceChars),
       Opt({"'"}), Star(SpaceChars),
       Group(<<Num(FALSE), Star(SpaceChars), Opt({"\""})>>),
       Star(SpaceChars), Opt(DirChars) >>

\* The class-based tool:
\* ^(N|S|E|W)?\s*(-?\d+(?:\.\d+)?)\s*[deg\s]\s*(\d+(?:\.\d+)?)(?:['\s]\s*(\d+(?:\.\d+)?))?\s*(N|S|E|W)?$
VanillaPattern ==
    << Opt(DirChars), Star(SpaceChars), Num(TRUE), Star(SpaceChars),
       Req({"deg"} \cup SpaceChars), Star(SpaceChars), Num(FALSE),
       Group(<<Req({"'"} \cup SpaceChars), Star(SpaceChars), Num(FALSE)>>),
       Star(SpaceChars), Opt(DirChars) >>

\* The capture groups [prefixDir, degreesStr, minutesStr, secondsStr, suffixDir] of a
\* matched path; a group that did not take part is the empty string.
Captures(v, s, path) ==
    [prefixDir  |-> SubSeq(s, path[1], path[2] - 1),
     degreesStr |-> SubSeq(s, path[3], path[4] - 1),
     minutesStr |-> SubSeq(s, path[7], path[8] - 1),
     secondsStr |-> IF v = "vanilla" THEN SubSeq(s, path[10], path[11] - 1)
                                     ELSE SubSeq(s, path[11], path[12] - 1),
     suffixDir  |-> SubSeq(s, path[Len(path) - 1], Last(path) - 1)]

-----------------------------------------------------------------------------
(* Coordinate conversion: parsers                                           *)
(*                                                                          *)
(* A parser returns [ok |-> TRUE, ...] or, where the code throws,           *)
(* [ok |-> FALSE, error |-> the message].                                   *)

Fail(msg) == [ok |-> FALSE, error |-> msg]

\* The number of characters of s from position p on that are in C.
RECURSIVE RunLength(_, _, _)
RunLength(s, p, C) == IF At(s, p) \in C THEN 1 + RunLength(s, p + 1, C) ELSE 0

\* parseFloat: leading white space, a sign, digits, a fraction; NaN when no digit is
\* read; whatever follows the number is ignored.  (Exponents are not read: no text
\* of the model has a digit after an E.)
parseFloat(s) ==
    LET start   == 1 + RunLength(s, 1, SpaceChars)
        signed  == At(s, start) \in {"-", "+"}
        from    == IF signed THEN start + 1 ELSE start
        intLen  == RunLength(s, from, DigitChars)
        hasDot  == At(s, from + intLen) = "."
        fracLen == IF hasDot THEN RunLength(s, from + intLen + 1, DigitChars) ELSE 0
    IN  IF intLen = 0 /\ fracLen = 0 THEN NaNDecimal
        ELSE Decimal(At(s, start) = "-",
                     DigitsValue(SubSeq(s, from, from + intLen - 1)),
                     DigitsValue(SubSeq(s, from + intLen + 1, from + intLen + fracLen)),
                     Pow10(fracLen))

\* Mutant: only the latitude is checked.
validateRange_LatOnly(lat, lon) ==
    IF lat < -90 * UnitsPerDegree \/ lat > 90 * UnitsPerDegree
    THEN Fail("Latitude must be between -90 and 90 degrees.")
    ELSE [ok |-> TRUE]

validateRange(lat, lon) ==
    IF lat < -90 * UnitsPerDegree \/ lat > 90 * UnitsPerDegree
    THEN Fail("Latitude must be between -90 and 90 degrees.")
    ELSE IF lon < -180 * UnitsPerDegree \/ lon > 180 * UnitsPerDegree
    THEN Fail("Longitude must be between -180 and 180 degrees.")
    ELSE [ok |-> TRUE]

\* direction is "" or one letter; degrees is the parsed degree number.
getSignFromDirection(direction, isLat, degrees) ==
    LET normalized == toUpperCase(direction)
        allowed    == IF isLat THEN {<<"N">>, <<"S">>} ELSE {<<"E">>, <<"W">>}
    IN  IF normalized # <<>> /\ normalized \notin allowed
        THEN Fail(IF isLat THEN "Use N or S for latitude directions."
                           ELSE "Use E or W for longitude directions.")
        ELSE IF normalized \in {<<"S">>, <<"W">>} THEN [ok |-> TRUE, sign |-> -1]
        ELSE IF normalized \in {<<"N">>, <<"E">>} THEN [ok |-> TRUE, sign |-> 1]
        ELSE [ok |-> TRUE, sign |-> IF DecimalNegative(degrees) THEN -1 ELSE 1]

getDirection(value, isLat) ==
    IF isLat THEN (IF value >= 0 THEN "N" ELSE "S")
             ELSE (IF value >= 0 THEN "E" ELSE "W")

\* Whether parseCoordinateString of variant v has the "expectSeconds && !direction" check.
RequiresDmsDirection(v) == v # "vanilla"

CoordinatePattern(v) == IF v = "vanilla" THEN VanillaPattern ELSE SharedPattern(v)

\* parseCoordinateString, read from its last line up.  Each definition is a stretch
\* of the function and takes as parameters what the lines above that stretch have
\* computed.

\* return sign * (Math.abs(degrees) + minutes / 60 + seconds / 3600), sign being what
\* getSignFromDirection returned or threw.
SignedAngle(sign, degrees, minutes, seconds) ==
    IF ~sign.ok THEN sign
    ELSE [ok    |-> TRUE,
          value |-> sign.sign * (DegreeUnits(degrees)
                                 + DecimalUnits(minutes, UnitsPerMinute)
                                 + DecimalUnits(seconds, UnitsPerSecond))]

\* The checks on the parsed numbers and the direction, then the signed value.
CheckedAngle(v, secondsStr, degrees, minutes, seconds, direction, expectSeconds, isLat) ==
    IF degrees.nan \/ minutes.nan \/ (expectSeconds /\ seconds.nan)
    THEN Fail("Degrees, minutes, or seconds are invalid numbers.")
    ELSE IF minutes.ip >= 60 \/ seconds.ip >= 60
    THEN Fail("Minutes and seconds must be between 0 and 59.")
    ELSE IF expectSeconds /\ secondsStr = <<>>
    THEN Fail("Please include seconds for DMS coordinates.")
    ELSE IF RequiresDmsDirection(v) /\ expectSeconds /\ direction = <<>>
    THEN Fail(IF isLat THEN "Please include N/S or E/W for the latitude DMS value."
                       ELSE "Please include N/S or E/W for the longitude DMS value.")
    ELSE SignedAngle(getSignFromDirection(direction, isLat, degrees),
                     degrees, minutes, seconds)

\* parseFloat of the captured numbers; direction = prefixDir || suffixDir || ''.
CapturedAngle(v, c, expectSeconds, isLat) ==
    CheckedAngle(v, c.secondsStr,
                 parseFloat(c.degreesStr),
                 parseFloat(c.minutesStr),
                 IF c.secondsStr # <<>> THEN parseFloat(c.secondsStr)
                                        ELSE Decimal(FALSE, 0, 0, 1),
                 IF c.prefixDir # <<>> THEN c.prefixDir ELSE c.suffixDir,
                 expectSeconds, isLat)

\* if (!match) throw ...; otherwise the capture groups.
MatchedAngle(v, trimmed, match, expectSeconds, isLat) ==
    IF ~match.matched
    THEN Fail(IF expectSeconds THEN "Could not parse DMS value" ELSE "Could not parse DM value")
    ELSE CapturedAngle(v, Captures(v, trimmed, match.path), expectSeconds, isLat)

TrimmedAngle(v, trimmed, expectSeconds, isLat) ==
    MatchedAngle(v, trimmed, Match(trimmed, CoordinatePattern(v)), expectSeconds, isLat)

parseCoordinateString(v, value, expectSeconds, isLat) ==
    TrimmedAngle(v, toUpperCase(trim(value)), expectSeconds, isLat)

SignedDegreeUnits(d) == IF d.neg THEN -DegreeUnits(d) ELSE DegreeUnits(d)

\* this.validateRange(lat, lon); return { lat, lon };
RangedPair(range, lat, lon) ==
    IF ~range.ok THEN range ELSE [ok |-> TRUE, lat |-> lat, lon |-> lon]

ValidatedPair(lat, lon) == RangedPair(validateRange(lat, lon), lat, lon)

\* parseDecimalDegrees once parseFloat has read the two fields.
DecimalPair(lat, lon) ==
    IF lat.nan \/ lon.nan
    THEN Fail("Please provide numeric latitude and longitude values.")
    ELSE ValidatedPair(SignedDegreeUnits(lat), SignedDegreeUnits(lon))

parseDecimalDegrees(latStr, lonStr) == DecimalPair(parseFloat(latStr), parseFloat(lonStr))

\* parseDegreesMinutes once parseCoordinateString has returned, or thrown, for each
\* field (an error in the latitude comes first).
AnglePair(lat, lon) ==
    IF ~lat.ok THEN lat
    ELSE IF ~lon.ok THEN lon
    ELSE ValidatedPair(lat.value, lon.value)

parseDegreesMinutes(v, latStr, lonStr, expectSeconds) ==
    AnglePair(parseCoordinateString(v, latStr, expectSeconds, TRUE),
              parseCoordinateString(v, lonStr, expectSeconds, FALSE))

\* What mgrs.toPoint can do with the text it is given: throw (with a message of its
\* own) or return a point.  The library is outside the repository; a point outside the
\* geographic ranges is among the outcomes so that the range check has work to do.
MgrsLibraryOutcomes ==
    {[throws |-> TRUE, message |-> "MGRSPoint bad conversion"],
     [throws |-> TRUE, message |-> "MGRSPoint zone letter invalid"],
     [throws |-> FALSE, lat |-> 50 * UnitsPerDegree, lon |-> 14 * UnitsPerDegree],
     [throws |-> FALSE, lat |-> -(33 * UnitsPerDegree), lon |-> 151 * UnitsPerDegree],
     [throws |-> FALSE, lat |-> 95 * UnitsPerDegree, lon |-> 14 * UnitsPerDegree],
     [throws |-> FALSE, lat |-> 50 * UnitsPerDegree, lon |-> -(181 * UnitsPerDegree)]}

InvalidMgrs == "Invalid MGRS coordinate. Please check the grid zone and digits."

\* Mutant: the library call is not wrapped; its exception reaches the caller.
parseMgrs_NoCatch(value, library) ==
    IF trim(value) = <<>> THEN Fail("Please enter an MGRS coordinate.")
    ELSE IF library.throws THEN Fail(library.message)
    ELSE ValidatedPair(library.lat, library.lon)

\* library is what mgrs.toPoint does with toUpperCase(removeWhitespace(trim(value))).
parseMgrs(value, library) ==
    IF trim(value) = <<>> THEN Fail("Please enter an MGRS coordinate.")
    ELSE IF library.throws THEN Fail(InvalidMgrs)
    ELSE IF ~validateRange(library.lat, library.lon).ok THEN Fail(InvalidMgrs)
    ELSE [ok |-> TRUE, lat |-> library.lat, lon |-> library.lon]

\* The text parseMgrs hands to the library.
MgrsLibraryArgument(value) == toUpperCase(removeWhitespace(trim(value)))

-----------------------------------------------------------------------------
(* Coordinate conversion: formatters                                        *)

\* The degree mark the formatters of variant v write, and the space the class-based
\* tool puts after each part.
DegreeMark(v) == IF v = "angular" THEN <<"uring">> ELSE <<"deg">>
FormatGap(v) == IF v = "vanilla" THEN <<" ">> ELSE <<>>

\* value.toFixed(6): millionths of a degree, rounded to nearest.
formatDecimalDegrees(value) ==
    (IF value < 0 THEN <<"-">> ELSE <<>>) \o ToFixed((Abs(value) + 4) \div 9, 6)

formatDegreesMinutes(v, value, isLat) ==
    LET abs         == Abs(value)
        degrees     == abs \div UnitsPerDegree
        \* minutes = (abs - degrees) * 60, here in units; toFixed(3) rounds to 0.001'
        minutes     == abs % UnitsPerDegree
        minutes1000 == (minutes + (UnitsPerMinute \div 2000)) \div (UnitsPerMinute \div 1000)
    IN  Digits(degrees) \o DegreeMark(v) \o FormatGap(v)
        \o ToFixed(minutes1000, 3) \o <<"'">> \o FormatGap(v)
        \o <<getDirection(value, isLat)>>

formatDms(v, value, isLat) ==
    LET abs          == Abs(value)
        degrees      == abs \div UnitsPerDegree
        totalMinutes == abs % UnitsPerDegree
        minutes      == totalMinutes \div UnitsPerMinute
        \* seconds = (totalMinutes - minutes) * 60, here in units; toFixed(1) rounds to 0.1"
        seconds      == totalMinutes % UnitsPerMinute
        seconds10    == (seconds + (UnitsPerSecond \div 20)) \div (UnitsPerSecond \div 10)
    IN  Digits(degrees) \o DegreeMark(v) \o FormatGap(v)
        \o Digits(minutes) \o <<"'">> \o FormatGap(v)
        \o ToFixed(seconds10, 1) \o <<"\"">> \o FormatGap(v)
        \o <<getDirection(value, isLat)>>

\* The DD, DM and DMS texts of a pair, one text per axis.  (The MGRS text comes from
\* the library's forward conversion and plays no part in what is checked here.)
buildCoordinateResults(v, lat, lon) ==
    [dd  |-> <<formatDecimalDegrees(lat), formatDecimalDegrees(lon)>>,
     dm  |-> <<formatDegreesMinutes(v, lat, TRUE), formatDegreesMinutes(v, lon, FALSE)>>,
     dms |-> <<formatDms(v, lat, TRUE), formatDms(v, lon, FALSE)>>]

-----------------------------------------------------------------------------
(* Coordinate conversion: the convert handler                               *)

\* The library is not called for the formats DD, DM and DMS.
NoLibraryCall == [throws |-> FALSE, called |-> FALSE]

\* Texts of the latitude and longitude fields:
\*   48.858370   -33.8688   90   91   x
\*   48deg51.502'N   s 33 52.128   50deg 5' 42.8" N   90 0 0 N   91 0 0 N
LatTexts ==
    {<<"4", "8", ".", "8", "5", "8", "3", "7", "0">>,
     <<"-", "3", "3", ".", "8", "6", "8", "8">>,
     <<"9", "0">>,
     <<"9", "1">>,
     <<"x">>,
     <<"4", "8", "deg", "5", "1", ".", "5", "0", "2", "'", "N">>,
     <<"s", " ", "3", "3", " ", "5", "2", ".", "1", "2", "8">>,
     <<"5", "0", "deg", " ", "5", "'", " ", "4", "2", ".", "8", "\"", " ", "N">>,
     <<"9", "0", " ", "0", " ", "0", " ", "N">>,
     <<"9", "1", " ", "0", " ", "0", " ", "N">>}

\*   2.294480   -180   180.000001   e
\*   2deg17.669'E   14deg 26' 9.6" E   180 0 0 W   181 0 0 E
LonTexts ==
    {<<"2", ".", "2", "9", "4", "4", "8", "0">>,
     <<"-", "1", "8", "0">>,
     <<"1", "8", "0", ".", "0", "0", "0", "0", "0", "1">>,
     <<"e">>,
     <<"2", "deg", "1", "7", ".", "6", "6", "9", "'", "E">>,
     <<"1", "4", "deg", " ", "2", "6", "'", " ", "9", ".", "6", "\"", " ", "E">>,
     <<"1", "8", "0", " ", "0", " ", "0", " ", "W">>,
     <<"1", "8", "1", " ", "0", " ", "0", " ", "E">>}

\* Texts of the MGRS field: empty, blank, a grid reference typed in lower case with
\* spaces, and a text that is no grid reference.
MgrsTexts ==
    {<<>>,
     <<" ">>,
     <<" ", "3", "3", "u", "v", "r", " ", "5", "8", " ", "5", "0", " ">>,
     <<"x">>}

\* The few texts of the interactive specification: a DD, a DMS and an out-of-range
\* latitude, a DD and a DMS longitude, a grid reference, a throwing and a returning
\* library.
FewLatTexts ==
    {<<"4", "8", ".", "8", "5", "8", "3", "7", "0">>,
     <<"5", "0", "deg", " ", "5", "'", " ", "4", "2", ".", "8", "\"", " ", "N">>,
     <<"9", "1", " ", "0", " ", "0", " ", "N">>}
FewLonTexts ==
    {<<"2", ".", "2", "9", "4", "4", "8", "0">>,
     <<"1", "4", "deg", " ", "2", "6", "'", " ", "9", ".", "6", "\"", " ", "E">>}
FewMgrsTexts ==
    {<<>>,
     <<" ", "3", "3", "u", "v", "r", " ", "5", "8", " ", "5", "0", " ">>}
FewLibraryOutcomes ==
    {[throws |-> TRUE, message |-> "MGRSPoint bad conversion"],
     [throws |-> FALSE, lat |-> 50 * UnitsPerDegree, lon |-> 14 * UnitsPerDegree]}

LatLonFormats == {"dd", "dm", "dms"}

CoordinatesInput(format, latText, lonText, mgrsText, library) ==
    [kind |-> "coordinates", format |-> format, lat |-> latText, lon |-> lonText,
     mgrs |-> mgrsText, cleaned |-> MgrsLibraryArgument(mgrsText), library |-> library]

\* The switch on the selected format.
parseCoordinates(v, format, latText, lonText, mgrsText, library) ==
    CASE format = "dd"   -> parseDecimalDegrees(latText, lonText)
      [] format = "dm"   -> parseDegreesMinutes(v, latText, lonText, FALSE)
      [] format = "dms"  -> parseDegreesMinutes(v, latText, lonText, TRUE)
      [] format = "mgrs" -> parseMgrs(mgrsText, library)

\* Publish the pair and its formatted texts, or alert the message of the error thrown.
displayResults_PartialOnError(kind, pair) ==
    IF pair.ok
    THEN /\ alertMsg' = ""
         /\ result' = [kind |-> kind, lat |-> pair.lat, lon |-> pair.lon,
                       texts |-> buildCoordinateResults(variant, pair.lat, pair.lon)]
    ELSE /\ alertMsg' = pair.error
         /\ result' = [kind |-> kind, texts |-> <<>>]

displayResults(kind, pair) ==
    IF pair.ok
    THEN /\ alertMsg' = ""
         /\ result' = [kind |-> kind, lat |-> pair.lat, lon |-> pair.lon,
                       texts |-> buildCoordinateResults(variant, pair.lat, pair.lon)]
    ELSE /\ alertMsg' = pair.error
         /\ UNCHANGED result

\* convert(): parse the fields in the selected format, then publish or alert.
ConvertCoordinates(format, latText, lonText, mgrsText, library) ==
    /\ tool = "coordinates-conversion"
    /\ input' = CoordinatesInput(format, latText, lonText, mgrsText, library)
    /\ displayResults("coordinates",
                      parseCoordinates(variant, format, latText, lonText, mgrsText, library))
    /\ IF alertMsg' = "" THEN CopiedCleared ELSE UNCHANGED copyVars
    /\ UNCHANGED <<variant, tool, shellVars>>

-----------------------------------------------------------------------------
(* Floating-point numbers of the navigation tools                           *)
(*                                                                          *)
(* A float is [v, t]: v counts millionths (of a degree, a knot, or of one    *)
(* for a sine), and t, which is non-zero only when v = 0, stands for a       *)
(* non-zero float far below a millionth.  For a sine or a speed component t *)
(* counts multiples of HalfEps = (pi - Math.PI) / 2 = 6.1e-17: Math.sin and  *)
(* Math.cos do not return 0 at the multiples of 90 degrees but               *)
(* Math.sin(Math.PI) = 2 HalfEps, Math.sin(2 * Math.PI) = -4 HalfEps,        *)
(* Math.cos(Math.PI / 2) = HalfEps, Math.cos(3 * Math.PI / 2) = -3 HalfEps.  *)
(* For an angle in degrees t counts thousandths of HalfUlp360 = 2^-45, half  *)
(* the distance between 360 and the next float below it.  A sum of two      *)
(* opposite values of v is taken to be exactly 0.                           *)

Million == 10 ^ 6

Exact(v) == [v |-> v, t |-> 0]
Tiny(t) == [v |-> 0, t |-> t]
Zero == Exact(0)

Sign(x) == IF x > 0 THEN 1 ELSE IF x < 0 THEN -1 ELSE 0

Max(a, b) == IF a >= b THEN a ELSE b

FlSign(x) == IF x.v # 0 THEN Sign(x.v) ELSE Sign(x.t)
FlNeg(x) == [v |-> -x.v, t |-> -x.t]
FlAbs(x) == IF FlSign(x) < 0 THEN FlNeg(x) ELSE x
FlLess(x, y) == x.v < y.v \/ (x.v = y.v /\ x.t < y.t)

\* x + y: a value below a millionth is absorbed by one that is not.
FlAdd(x, y) ==
    IF x.v + y.v # 0 THEN Exact(x.v + y.v) ELSE Tiny(x.t + y.t)

\* The quotient and the remainder of a * b by c, for 0 <= a < c, b >= 0 and 3 * c
\* below 2^31: the product is built bit by bit of b so that every intermediate value
\* stays a 32-bit integer.
MulDivBit(qr, a, bit, c) ==
    <<2 * qr[1] + (2 * qr[2] + bit * a) \div c, (2 * qr[2] + bit * a) % c>>

RECURSIVE MulDivStep(_, _, _)
MulDivStep(a, b, c) ==
    IF b = 0 THEN <<0, 0>> ELSE MulDivBit(MulDivStep(a, b \div 2, c), a, b % 2, c)

\* a * b / c truncated toward zero.
MulDiv(a, b, c) ==
    Sign(a) * Sign(b) * Sign(c)
    * ((Abs(a) \div Abs(c)) * Abs(b) + MulDivStep((Abs(a) % Abs(c)), Abs(b), Abs(c))[1])

\* Math.round of x / den (den > 0): the nearest integer, a half rounded up.
RoundQuotient(x, den) == (2 * x + den) \div (2 * den)

\* The square root of n >= 0, rounded down, by bisection of lo..hi.
RECURSIVE SqrtBetween(_, _, _)
SqrtBetween(n, lo, hi) ==
    IF lo >= hi THEN lo
    ELSE IF ((lo + hi + 1) \div 2) * ((lo + hi + 1) \div 2) <= n
         THEN SqrtBetween(n, (lo + hi + 1) \div 2, hi)
         ELSE SqrtBetween(n, lo, (lo + hi + 1) \div 2 - 1)

\* 10^6 * sin(d degrees) for d = 0 .. 90.
SinTable ==
    <<0, 17452, 34899, 52336, 69756, 87156, 104528, 121869, 139173, 156434,
      173648, 190809, 207912, 224951, 241922, 258819, 275637, 292372, 309017, 325568,
      342020, 358368, 374607, 390731, 406737, 422618, 438371, 453990, 469472, 484810,
      500000, 515038, 529919, 544639, 559193, 573576, 587785, 601815, 615661, 629320,
      642788, 656059, 669131, 681998, 694658, 707107, 719340, 731354, 743145, 754710,
      766044, 777146, 788011, 798636, 809017, 819152, 829038, 838671, 848048, 857167,
      866025, 874620, 882948, 891007, 898794, 906308, 913545, 920505, 927184, 933580,
      939693, 945519, 951057, 956305, 961262, 965926, 970296, 974370, 978148, 981627,
      984808, 987688, 990268, 992546, 994522, 996195, 997564, 998630, 999391, 999848,
      1000000>>

\* 10^6 * sin(d degrees) for a whole d >= 0, from the table by the symmetries of the sine.
SinMillionths(d) ==
    CASE (d % 360) <= 90  -> SinTable[(d % 360) + 1]
      [] (d % 360) <= 180 -> SinTable[180 - (d % 360) + 1]
      [] (d % 360) <= 270 -> -SinTable[(d % 360) - 180 + 1]
      [] OTHER            -> -SinTable[360 - (d % 360) + 1]

\* Math.sin((d * Math.PI) / 180) for a whole number of degrees d, -720 <= d <= 720.
Sin(d) ==
    IF d < 0 THEN [v |-> -SinMillionths(-d), t |-> IF ((-d) % 180) = 0
                                                   THEN -(IF ((-d) \div 180) % 2 = 1 THEN 1 ELSE -1)
                                                        * 2 * ((-d) \div 180)
                                                   ELSE 0]
    ELSE [v |-> SinMillionths(d), t |-> IF (d % 180) = 0
                                        THEN (IF (d \div 180) % 2 = 1 THEN 1 ELSE -1)
                                             * 2 * (d \div 180)
                                        ELSE 0]

\* Math.cos((d * Math.PI) / 180) for a whole number of degrees d, -720 <= d <= 720.
Cos(d) ==
    [v |-> SinMillionths(Abs(d) + 90),
     t |-> IF (Abs(d) % 180) = 90
           THEN (IF (Abs(d) \div 180) % 2 = 0 THEN 1 ELSE -1) * (2 * (Abs(d) \div 180) + 1)
           ELSE 0]

-----------------------------------------------------------------------------
(* Angles                                                                   *)

\* An angle is a float of millionths of a degree.
Degrees(d) == Exact(d * Million)

NaNAngle == Exact(NaN)

\* The remainder of JavaScript: it takes the sign of the dividend.
Remainder(x, m) == Sign(x) * (Abs(x) % m)

\* 2^-45, half the distance between 360 and the float below it, in the units of an
\* angle's t.
HalfUlp360 == 1000

\* x + 360 for a float x < 0: a value of at most HalfUlp360 is lost in the rounding of
\* the sum to the nearest float (a tie goes to 360), a larger one gives a float just
\* below 360.
AddFullTurn(x) ==
    IF x.v # 0 THEN Exact(x.v + 360 * Million)
    ELSE IF -x.t <= HalfUlp360 THEN Degrees(360) ELSE Exact(360 * Million - 1)

normalizeDegrees(value) ==
    LET normalized == [v |-> Remainder(value.v, 360 * Million), t |-> value.t]
    IN IF FlSign(normalized) < 0 THEN AddFullTurn(normalized) ELSE normalized

\* Interpolation between the values a sine or cosine takes at the whole degrees
\* around x (millionths of a degree, 0 <= x < 90 degrees).
Between(lo, hi, x) == lo + MulDiv(hi - lo, x % Million, Million)

SinAt(x) == Between(Sin(x \div Million).v, Sin(x \div Million + 1).v, x)
CosAt(x) == Between(Cos(x \div Million).v, Cos(x \div Million + 1).v, x)

\* 10^6 * Math.tan of the angle x, 0 <= x < 90 degrees.
TanAt(x) == MulDiv(SinAt(x), Million, CosAt(x))

-----------------------------------------------------------------------------
(* Fly-by turn anticipation                                                 *)

Infinity == 2147483647
G == 9806650
NM_TO_M == 1852
STRAIGHT_TRACK_CHANGE_EPS_DEG == Exact(1)
MAX_SUPPORTED_TURN_ANGLE_DEG == Degrees(179)

normalizeDeg360(deg) ==
    LET x == [v |-> Remainder(deg.v, 360 * Million), t |-> deg.t]
    IN IF FlSign(x) < 0 THEN AddFullTurn(x) ELSE x

smallestTurnAngleDeg(inboundTrackDeg, outboundTrackDeg) ==
    LET delta == FlAbs(FlAdd(normalizeDeg360(outboundTrackDeg),
                             FlNeg(normalizeDeg360(inboundTrackDeg))))
    IN IF FlLess(Degrees(180), delta) THEN FlAdd(Degrees(360), FlNeg(delta)) ELSE delta

Thrown(message) == [ok |-> FALSE, message |-> message]

\* The speed in millimetres per second.
SpeedMps(knots) == (knots * 514444) \div 1000

\* The turn radius in tenths of a metre: v^2 / (g * tanBank), tanBank in millionths.
TurnRadius(knots, g, tanBank) ==
    MulDiv(MulDiv(SpeedMps(knots), SpeedMps(knots), 1000), 10000, MulDiv(g, tanBank, Million))

\* The result past the two early exits; lengths in tenths of a metre, the lead in
\* nautical miles in thousandths.
TurnGeometry(turnAngleDeg, turnRadiusM) ==
    [ok |-> TRUE,
     turnAngleDeg |-> turnAngleDeg,
     turnRadiusM |-> turnRadiusM,
     leadDistanceM |-> MulDiv(turnRadiusM, TanAt(turnAngleDeg.v \div 2), Million),
     leadDistanceNM |-> MulDiv(MulDiv(turnRadiusM, TanAt(turnAngleDeg.v \div 2), Million),
                               100, NM_TO_M)]

\* The checks on the turn angle and the computation, for a bank angle and a ground
\* speed that passed theirs.  Math.tan is negative from 90 to 180 degrees and, by the
\* rounding of Math.PI, at 180 (-1.2e-16); at 90 it is 1.6e16, which leaves a radius
\* far below a tenth of a metre.
TurnAnticipation_179Refused(bankAngleDeg, groundSpeedKt, turnAngleDeg) ==
    IF ~FlLess(turnAngleDeg, MAX_SUPPORTED_TURN_ANGLE_DEG)
    THEN Thrown("Turn difference must be 179 deg or less for this model.")
    ELSE IF FlLess(turnAngleDeg, STRAIGHT_TRACK_CHANGE_EPS_DEG)
    THEN [ok |-> TRUE, turnAngleDeg |-> turnAngleDeg, turnRadiusM |-> Infinity,
          leadDistanceM |-> 0, leadDistanceNM |-> 0]
    ELSE IF (bankAngleDeg % 180) = 0 \/ (bankAngleDeg % 180) > 90
    THEN Thrown("Invalid bank angle (tan(phi) not finite/positive).")
    ELSE IF (bankAngleDeg % 180) = 90
    THEN TurnGeometry(turnAngleDeg, 0)
    ELSE TurnGeometry(turnAngleDeg,
                      TurnRadius(groundSpeedKt, G, TanAt((bankAngleDeg % 180) * Million)))

TurnAnticipation_NoStraightCase(bankAngleDeg, groundSpeedKt, turnAngleDeg) ==
    IF FlLess(MAX_SUPPORTED_TURN_ANGLE_DEG, turnAngleDeg)
    THEN Thrown("Turn difference must be 179 deg or less for this model.")
    ELSE IF (bankAngleDeg % 180) = 0 \/ (bankAngleDeg % 180) > 90
    THEN Thrown("Invalid bank angle (tan(phi) not finite/positive).")
    ELSE IF (bankAngleDeg % 180) = 90
    THEN TurnGeometry(turnAngleDeg, 0)
    ELSE TurnGeometry(turnAngleDeg,
                      TurnRadius(groundSpeedKt, G, TanAt((bankAngleDeg % 180) * Million)))

TurnAnticipation(bankAngleDeg, groundSpeedKt, turnAngleDeg) ==
    IF FlLess(MAX_SUPPORTED_TURN_ANGLE_DEG, turnAngleDeg)
    THEN Thrown("Turn difference must be 179 deg or less for this model.")
    ELSE IF FlLess(turnAngleDeg, STRAIGHT_TRACK_CHANGE_EPS_DEG)
    THEN [ok |-> TRUE, turnAngleDeg |-> turnAngleDeg, turnRadiusM |-> Infinity,
          leadDistanceM |-> 0, leadDistanceNM |-> 0]
    ELSE IF (bankAngleDeg % 180) = 0 \/ (bankAngleDeg % 180) > 90
    THEN Thrown("Invalid bank angle (tan(phi) not finite/positive).")
    ELSE IF (bankAngleDeg % 180) = 90
    THEN TurnGeometry(turnAngleDeg, 0)
    ELSE TurnGeometry(turnAngleDeg,
                      TurnRadius(groundSpeedKt, G, TanAt((bankAngleDeg % 180) * Million)))

\* bankAngleDeg a whole number of degrees or NaN, groundSpeedKt whole knots or NaN.
computeTurnAnticipationDistance(bankAngleDeg, groundSpeedKt, inboundTrackDeg, outboundTrackDeg) ==
    IF IsNaN(bankAngleDeg) \/ bankAngleDeg <= 0
    THEN Thrown("bankAngleDeg must be a finite number > 0")
    ELSE IF IsNaN(groundSpeedKt) \/ groundSpeedKt <= 0
    THEN Thrown("groundSpeedKt must be a finite number > 0")
    ELSE TurnAnticipation(bankAngleDeg, groundSpeedKt,
                          smallestTurnAngleDeg(inboundTrackDeg, outboundTrackDeg))

\* FlybyTurnComponent: the four fields as parseFloat reads them, and the unit selected.
METERS_PER_UNIT == [km |-> 1000, nm |-> 1852]

FlybyInput(inboundTrack, outboundTrack, bankAngle, groundSpeed, unit) ==
    [kind |-> "flyby-turn", inboundTrack |-> inboundTrack, outboundTrack |-> outboundTrack,
     bankAngle |-> bankAngle, groundSpeed |-> groundSpeed, unit |-> unit]

validateInputs(inboundTrack, outboundTrack, bankAngle, groundSpeed) ==
    IF IsNaN(inboundTrack.v) \/ IsNaN(outboundTrack.v) \/ IsNaN(bankAngle) \/ IsNaN(groundSpeed)
    THEN "Enter valid numeric values for all fields."
    ELSE IF \/ FlLess(inboundTrack, Zero) \/ FlLess(Degrees(360), inboundTrack)
            \/ FlLess(outboundTrack, Zero) \/ FlLess(Degrees(360), outboundTrack)
    THEN "Inbound and outbound track must be between 0 and 360 deg."
    ELSE IF bankAngle <= 0 \/ bankAngle >= 90
    THEN "Bank angle must be greater than 0 deg and less than 90 deg."
    ELSE IF groundSpeed <= 0
    THEN "Ground speed must be greater than 0 kt."
    ELSE ""

\* The result signal: distances in thousandths of the unit, no radius when it is infinite.
FlybyResult(computed, unit) ==
    [kind |-> "flyby-turn",
     turnAngleDeg |-> computed.turnAngleDeg,
     anticipationDistance |-> MulDiv(computed.leadDistanceM, 100, METERS_PER_UNIT[unit]),
     turnRadius |-> IF computed.turnRadiusM = Infinity THEN Null
                    ELSE [value |-> MulDiv(computed.turnRadiusM, 100, METERS_PER_UNIT[unit])],
     unit |-> unit]

FlybyPublish(validationError, computed, unit) ==
    IF validationError # ""
    THEN result' = Null /\ alertMsg' = validationError
    ELSE IF computed.ok
    THEN result' = FlybyResult(computed, unit) /\ alertMsg' = ""
    ELSE result' = Null /\ alertMsg' = computed.message

\* Mutant: a failed calculation sets the message and leaves the result shown.
FlybyCalculate_ErrorKeepsResult(inboundTrack, outboundTrack, bankAngle, groundSpeed, unit) ==
    LET validationError == validateInputs(inboundTrack, outboundTrack, bankAngle, groundSpeed)
        computed == computeTurnAnticipationDistance(bankAngle, groundSpeed,
                                                    inboundTrack, outboundTrack)
    IN  /\ tool = "flyby-turn"
        /\ input' = FlybyInput(inboundTrack, outboundTrack, bankAngle, groundSpeed, unit)
        /\ IF validationError # ""
           THEN UNCHANGED result /\ alertMsg' = validationError
           ELSE FlybyPublish(validationError, computed, unit)
        /\ UNCHANGED <<variant, tool, shellVars, copyVars>>

\* Mutant: an accepted calculation made while a result is shown keeps that result.
FlybyCalculate_KeepsShown(inboundTrack, outboundTrack, bankAngle, groundSpeed, unit) ==
    /\ tool = "flyby-turn"
    /\ input' = FlybyInput(inboundTrack, outboundTrack, bankAngle, groundSpeed, unit)
    /\ IF /\ result # Null
          /\ validateInputs(inboundTrack, outboundTrack, bankAngle, groundSpeed) = ""
          /\ computeTurnAnticipationDistance(bankAngle, groundSpeed,
                                             inboundTrack, outboundTrack).ok
       THEN UNCHANGED result /\ alertMsg' = ""
       ELSE FlybyPublish(validateInputs(inboundTrack, outboundTrack, bankAngle, groundSpeed),
                         computeTurnAnticipationDistance(bankAngle, groundSpeed,
                                                         inboundTrack, outboundTrack),
                         unit)
    /\ UNCHANGED <<variant, tool, shellVars, copyVars>>

FlybyCalculate(inboundTrack, outboundTrack, bankAngle, groundSpeed, unit) ==
    /\ tool = "flyby-turn"
    /\ input' = FlybyInput(inboundTrack, outboundTrack, bankAngle, groundSpeed, unit)
    /\ FlybyPublish(validateInputs(inboundTrack, outboundTrack, bankAngle, groundSpeed),
                    computeTurnAnticipationDistance(bankAngle, groundSpeed,
                                                    inboundTrack, outboundTrack),
                    unit)
    /\ UNCHANGED <<variant, tool, shellVars, copyVars>>

FlybyTracks == {NaNAngle, Zero, Tiny(5000), Degrees(90), Degrees(270), Degrees(400)}
FlybyBanks == {NaN, 0, 25}
FlybySpeeds == {NaN, 0, 180}
FlybyUnits == {"km", "nm"}

-----------------------------------------------------------------------------
(* Turn performance                                                         *)

GRAVITY == 9810000

\* 360 / turnRateDegPerSec = 2 pi v / (g tan), in tenths of a second.
Time360(knots, g, tanBank) ==
    MulDiv(MulDiv(SpeedMps(knots), 6283185, Million), 10000, MulDiv(g, tanBank, Million))

\* speedKnots a whole number > 0, bankAngle a whole number of degrees above -90.  The
\* tangent is odd, so a negative bank angle gives the radius and the time of the
\* positive one with a minus sign.
calculateTurn_RadiusGrowsWithBank(speedKnots, bankAngle) ==
    IF bankAngle = 0 \/ bankAngle >= 90
    THEN [radiusMeters |-> Infinity, time360Seconds |-> Infinity]
    ELSE [radiusMeters |->
              Sign(bankAngle)
              * RoundQuotient(MulDiv(TurnRadius(speedKnots, GRAVITY, Million),
                                     TanAt(Abs(bankAngle) * Million), Million), 10),
          time360Seconds |->
              Sign(bankAngle)
              * RoundQuotient(Time360(speedKnots, GRAVITY, TanAt(Abs(bankAngle) * Million)), 10)]

calculateTurn(speedKnots, bankAngle) ==
    IF bankAngle = 0 \/ bankAngle >= 90
    THEN [radiusMeters |-> Infinity, time360Seconds |-> Infinity]
    ELSE [radiusMeters |->
              Sign(bankAngle)
              * RoundQuotient(TurnRadius(speedKnots, GRAVITY, TanAt(Abs(bankAngle) * Million)), 10),
          time360Seconds |->
              Sign(bankAngle)
              * RoundQuotient(Time360(speedKnots, GRAVITY, TanAt(Abs(bankAngle) * Million)), 10)]

TurnInput(speed, bankAngle) ==
    [kind |-> "turn-calculator", speed |-> speed, bankAngle |-> bankAngle]

TurnCalculate(speed, bankAngle) ==
    /\ tool = "turn-calculator"
    /\ input' = TurnInput(speed, bankAngle)
    /\ IF IsNaN(speed) \/ IsNaN(bankAngle)
       THEN /\ alertMsg' = "Please fill in all fields with valid numbers"
            /\ UNCHANGED result
       ELSE IF speed <= 0
       THEN /\ alertMsg' = "Speed must be greater than 0"
            /\ UNCHANGED result
       ELSE IF bankAngle <= 0 \/ bankAngle >= 90
       THEN /\ alertMsg' = "Bank angle must be between 0 and 90 degrees"
            /\ UNCHANGED result
       ELSE /\ alertMsg' = ""
            /\ result' = [kind |-> "turn-calculator"] @@ calculateTurn(speed, bankAngle)
    /\ UNCHANGED <<variant, tool, shellVars, copyVars>>

TurnSpeeds == {NaN, 0, 120}
TurnBanks == {NaN, -15, 0, 25, 90}

-----------------------------------------------------------------------------
(* Approach table                                                           *)
(*                                                                          *)
(* Heights and altitudes are floats of hundredths of a foot, distances       *)
(* thousandths of a nautical mile or of a kilometre; a slope is an angle.    *)

NM_TO_FEET == 607612
NM_TO_KM == 1852
FEET_PER_METER == 328084

\* Math.tan of a slope between 0 and 60 degrees: a slope far below a millionth of a
\* degree has a tangent as small.
TanOfSlope(slopeAngle) ==
    IF slopeAngle.v = 0 THEN Tiny(slopeAngle.t) ELSE Exact(TanAt(slopeAngle.v))

\* distanceFeet * Math.tan(slopeRadians), the distance in hundredths of a foot.
HeightAbove(distanceFeet, tanSlope) ==
    IF tanSlope.v = 0 THEN Tiny(distanceFeet * tanSlope.t)
    ELSE Exact(MulDiv(distanceFeet, tanSlope.v, Million))

ApproachRow_Descending(distanceNM, distanceKM, distanceFeet, targetAltitude, tanSlope) ==
    [distanceNM |-> distanceNM,
     distanceKM |-> distanceKM,
     altitudeAbove |-> FlAdd(targetAltitude, FlNeg(HeightAbove(distanceFeet, tanSlope))),
     heightAbove |-> FlNeg(HeightAbove(distanceFeet, tanSlope))]

ApproachRow(distanceNM, distanceKM, distanceFeet, targetAltitude, tanSlope) ==
    [distanceNM |-> distanceNM,
     distanceKM |-> distanceKM,
     altitudeAbove |-> FlAdd(targetAltitude, HeightAbove(distanceFeet, tanSlope)),
     heightAbove |-> HeightAbove(distanceFeet, tanSlope)]

\* The table of the Angular component, which alone takes the distance unit.
calculateApproachTable(targetAltitude, slopeAngle, distanceUnit) ==
    IF distanceUnit = "km"
    THEN [distanceKM \in 1 .. 20 |->
              ApproachRow(MulDiv(distanceKM * 1000, 1000, NM_TO_KM),
                          distanceKM * 1000,
                          MulDiv(distanceKM * NM_TO_FEET, 1000, NM_TO_KM),
                          targetAltitude, TanOfSlope(slopeAngle))]
    ELSE [distanceNM \in 1 .. 10 |->
              ApproachRow(distanceNM * 1000,
                          100 * RoundQuotient(distanceNM * NM_TO_KM, 100),
                          distanceNM * NM_TO_FEET,
                          targetAltitude, TanOfSlope(slopeAngle))]

\* The table of the React module and of the class-based tool: rows by nautical mile
\* only.  The revision of the class-based tool that asks for a TDZ altitude keeps the
\* kilometres unrounded.
calculateApproachTableNM(targetAltitude, slopeAngle, revision) ==
    [distanceNM \in 1 .. 10 |->
        ApproachRow(distanceNM * 1000,
                    IF revision = "tdz" THEN distanceNM * NM_TO_KM
                    ELSE 100 * RoundQuotient(distanceNM * NM_TO_KM, 100),
                    distanceNM * NM_TO_FEET,
                    targetAltitude, TanOfSlope(slopeAngle))]

ApproachTableOf(v, revision, targetAltitude, slopeAngle, distanceUnit) ==
    IF v = "angular" THEN calculateApproachTable(targetAltitude, slopeAngle, distanceUnit)
    ELSE calculateApproachTableNM(targetAltitude, slopeAngle, revision)

\* The target altitude in feet, from a whole number of feet or metres.
TargetAltitudeFt(targetAltitude, altitudeUnit) ==
    IF altitudeUnit = "m" THEN Exact((targetAltitude * FEET_PER_METER) \div 1000)
    ELSE Exact(targetAltitude * 100)

ApproachInput(revision, targetAltitude, slopeAngle, altitudeUnit, distanceUnit) ==
    [kind |-> "approach-table", revision |-> revision, targetAltitude |-> targetAltitude,
     slopeAngle |-> slopeAngle, altitudeUnit |-> altitudeUnit, distanceUnit |-> distanceUnit]

\* The slope check: the TDZ revision of the class-based tool refuses a slope of 0 too.
SlopeRefused(revision, slopeAngle) ==
    \/ IsNaN(slopeAngle.v)
    \/ IF revision = "tdz" THEN ~FlLess(Zero, slopeAngle) ELSE FlLess(slopeAngle, Zero)
    \/ FlLess(Degrees(60), slopeAngle)

\* calculate / handleGenerate / generateTable.  The class-based tool exists in two
\* revisions, the TDZ one without unit selectors.
ApproachCalculate(revision, targetAltitude, slopeAngle, altitudeUnit, distanceUnit) ==
    /\ tool = "approach-table"
    /\ revision = "tdz" => (variant = "vanilla" /\ altitudeUnit = "ft" /\ distanceUnit = "NM")
    /\ input' = ApproachInput(revision, targetAltitude, slopeAngle, altitudeUnit, distanceUnit)
    /\ IF IsNaN(targetAltitude)
       THEN /\ alertMsg' = IF revision = "tdz" THEN "Please enter a valid TDZ altitude"
                           ELSE "Please enter a valid Target Altitude"
            /\ UNCHANGED result
       ELSE IF SlopeRefused(revision, slopeAngle)
       THEN /\ alertMsg' = "Please enter a valid slope angle (0-60 deg)"
            /\ UNCHANGED result
       ELSE /\ alertMsg' = ""
            /\ result' = [kind |-> "approach-table",
                          rows |-> ApproachTableOf(variant, revision,
                                                   TargetAltitudeFt(targetAltitude, altitudeUnit),
                                                   slopeAngle, distanceUnit)]
    /\ UNCHANGED <<variant, tool, shellVars, copyVars>>

ApproachRevisions == {"target", "tdz"}
ApproachAltitudes == {NaN, 1500}
ApproachSlopes == {NaNAngle, Degrees(-1), Zero, Degrees(3), Degrees(61)}
AltitudeUnits == {"ft", "m"}
DistanceUnits == {"NM", "km"}

-----------------------------------------------------------------------------
(* Headwind and crosswind                                                   *)
(*                                                                          *)
(* Speeds are floats of millionths of a knot; a wind speed is entered in     *)
(* tenths of a knot, a true airspeed in whole knots, a direction in whole    *)
(* degrees.                                                                 *)

\* k * x / den for a whole number k and a sine or cosine x.
Times(k, x, den) == IF x.v = 0 THEN Tiny(k * x.t) ELSE Exact(MulDiv(k, x.v, den))

\* The whole degrees of an angle that is a whole number of degrees.
WholeDegrees(angle) == angle.v \div Million

CROSSWIND_THRESHOLD == 50000

CrosswindSide_SidesSwapped(crosswind) ==
    IF ~FlLess(FlAbs(crosswind), Exact(CROSSWIND_THRESHOLD))
    THEN IF FlSign(crosswind) > 0 THEN "left" ELSE "right"
    ELSE "none"

CrosswindSide(crosswind) ==
    IF ~FlLess(FlAbs(crosswind), Exact(CROSSWIND_THRESHOLD))
    THEN IF FlSign(crosswind) > 0 THEN "right" ELSE "left"
    ELSE "none"

calculateWindComponents(windSpeed, windDirection, aircraftHeading) ==
    [headwind |-> Times(windSpeed,
                        Cos(WholeDegrees(FlAdd(windDirection, FlNeg(aircraftHeading)))), 10),
     crosswind |-> Times(windSpeed,
                         Sin(WholeDegrees(FlAdd(windDirection, FlNeg(aircraftHeading)))), 10),
     crosswindFrom |-> CrosswindSide(Times(windSpeed,
                         Sin(WholeDegrees(FlAdd(windDirection, FlNeg(aircraftHeading)))), 10))]

\* The range check of the Angular components; the React modules have none.
DirectionRefused(v, direction) ==
    v = "angular" /\ (FlLess(direction, Zero) \/ FlLess(Degrees(360), direction))

WindInput(speed, direction, heading) ==
    [kind |-> "head-cross-wind", speed |-> speed, direction |-> direction, heading |-> heading]

WindCalculate(speed, direction, heading) ==
    /\ tool = "head-cross-wind"
    /\ input' = WindInput(speed, direction, heading)
    /\ IF IsNaN(speed) \/ IsNaN(direction.v) \/ IsNaN(heading.v)
       THEN /\ alertMsg' = "Please fill in all fields with valid numbers"
            /\ UNCHANGED result
       ELSE IF speed < 0
       THEN /\ alertMsg' = "Wind speed must be zero or greater"
            /\ UNCHANGED result
       ELSE IF DirectionRefused(variant, direction) \/ DirectionRefused(variant, heading)
       THEN /\ alertMsg' = "Wind direction and aircraft heading must be between 0 and 360 degrees"
            /\ UNCHANGED result
       ELSE /\ alertMsg' = ""
            /\ result' = [kind |-> "head-cross-wind"]
                         @@ calculateWindComponents(speed, normalizeDegrees(direction),
                                                    normalizeDegrees(heading))
    /\ UNCHANGED <<variant, tool, shellVars, copyVars>>

WindSpeeds == {NaN, -10, 29}
WindDirections == {NaNAngle, Degrees(-10), Zero, Degrees(90)}

-----------------------------------------------------------------------------
(* Track and ground speed                                                   *)

\* The tangents at the half degrees from 0.5 to 44.5 that r (millionths) reaches:
\* the whole degree nearest to the angle of tangent r, 0 <= r <= 10^6.
NearestDegree(r) == Cardinality({d \in 1 .. 45 : TanAt(d * Million - 500000) <= r})

\* The angle between 0 and 90 degrees of the direction (x, y), x, y >= 0 not both 0.
QuadrantDegrees(x, y) ==
    IF x <= y THEN NearestDegree(MulDiv(x, Million, y))
    ELSE 90 - NearestDegree(MulDiv(y, Million, x))

\* Math.atan2(x, y) * 180 / Math.PI to the nearest degree, x and y whole and not both 0.
DirectionDegrees(x, y) ==
    IF y >= 0 THEN Sign(x) * QuadrantDegrees(Abs(x), y)
    ELSE IF x = 0 THEN 180
    ELSE Sign(x) * (180 - QuadrantDegrees(Abs(x), -y))

\* (pi - Math.PI) / 2 radians in degrees, over HalfUlp360 / 1000 and times 10^6:
\* the angle of (t HalfEps, y knots) is t * 123.44 / y thousandths of HalfUlp360.
HALF_EPS_DEGREES == 123440000

\* (Math.atan2(totalVx, totalVy) * 180) / Math.PI.
Atan2Degrees(totalVx, totalVy) ==
    IF totalVx.v # 0
    THEN IF totalVy.v = 0 THEN Degrees(Sign(totalVx.v) * 90)
         ELSE Degrees(DirectionDegrees(totalVx.v, totalVy.v))
    ELSE IF totalVx.t = 0
    THEN IF FlSign(totalVy) < 0 THEN Degrees(180) ELSE Zero
    ELSE IF totalVy.v > 0
    THEN Tiny(Sign(totalVx.t) * Max(1, MulDiv(Abs(totalVx.t), HALF_EPS_DEGREES, totalVy.v)))
    ELSE IF totalVy.v < 0
    THEN Degrees(Sign(totalVx.t) * 180)
    ELSE Degrees(DirectionDegrees(totalVx.t, totalVy.t))

\* Math.sqrt(totalVx * totalVx + totalVy * totalVy), in tenths of a knot.
GroundSpeed(totalVx, totalVy) ==
    SqrtBetween((totalVx.v \div 100000) * (totalVx.v \div 100000)
                + (totalVy.v \div 100000) * (totalVy.v \div 100000), 0, 20000)

GroundVector(totalVx, totalVy) ==
    [groundTrack |-> normalizeDegrees(Atan2Degrees(totalVx, totalVy)),
     groundSpeed |-> GroundSpeed(totalVx, totalVy)]

\* The sum of the aircraft vector and of the wind vector, the wind blowing toward
\* windToDirection.
VectorSum(heading, tas, windToDirection, windSpeed) ==
    GroundVector(FlAdd(Times(tas, Sin(WholeDegrees(heading)), 1),
                       Times(windSpeed, Sin(WholeDegrees(windToDirection)), 1)),
                 FlAdd(Times(tas, Cos(WholeDegrees(heading)), 1),
                       Times(windSpeed, Cos(WholeDegrees(windToDirection)), 1)))

calculateGroundVector(heading, tas, windFromDirection, windSpeed) ==
    VectorSum(heading, tas, normalizeDegrees(FlAdd(windFromDirection, Degrees(180))), windSpeed)

TrackInput(windDirection, windSpeed, heading, tas) ==
    [kind |-> "track-ground-speed", windDirection |-> windDirection, windSpeed |-> windSpeed,
     heading |-> heading, tas |-> tas]

TrackCalculate(windDirection, windSpeed, heading, tas) ==
    /\ tool = "track-ground-speed"
    /\ input' = TrackInput(windDirection, windSpeed, heading, tas)
    /\ IF IsNaN(windDirection.v) \/ IsNaN(windSpeed) \/ IsNaN(heading.v) \/ IsNaN(tas)
       THEN /\ alertMsg' = "Please fill in all fields with valid numbers"
            /\ UNCHANGED result
       ELSE IF windSpeed < 0 \/ tas < 0
       THEN /\ alertMsg' = "Speeds must be zero or greater"
            /\ UNCHANGED result
       ELSE IF DirectionRefused(variant, windDirection)
       THEN /\ alertMsg' = "Wind Direction must be between 0 and 360"
            /\ UNCHANGED result
       ELSE IF DirectionRefused(variant, heading)
       THEN /\ alertMsg' = "Aircraft Heading must be between 0 and 360"
            /\ UNCHANGED result
       ELSE /\ alertMsg' = ""
            /\ result' = [kind |-> "track-ground-speed"]
                         @@ calculateGroundVector(normalizeDegrees(heading), tas,
                                                  normalizeDegrees(windDirection), windSpeed)
    /\ UNCHANGED <<variant, tool, shellVars, copyVars>>

TrackSpeeds == {NaN, -10, 100}
TrackDirections == {NaNAngle, Tiny(-1), Degrees(90), Degrees(360)}

-----------------------------------------------------------------------------
(* IEEE 754 doubles of the unit conversions                                 *)
(*                                                                          *)
(* A natural number of any size is a sequence of limbs, least significant   *)
(* first, each in 0 .. LimbBase - 1, with no zero limb at the top; <<>> is  *)
(* zero.  A finite double is [kind |-> "num", neg, m, e], the value          *)
(* (-1)^neg * m * 2^e, where m is zero or has exactly 53 bits; the other     *)
(* doubles are [kind |-> "inf", neg] and [kind |-> "nan"].  The products and *)
(* quotients are rounded to nearest, ties to even, as the hardware rounds   *)
(* them; the conversions stay far from the largest and smallest exponents.  *)

LimbBase == 2 ^ 14

RECURSIVE Strip(_)
Strip(a) == IF a # <<>> /\ a[Len(a)] = 0 THEN Strip(SubSeq(a, 1, Len(a) - 1)) ELSE a

Limb(a, i) == IF i >= 1 /\ i <= Len(a) THEN a[i] ELSE 0

BigOfInt(n) ==
    Strip(<<n % LimbBase, (n \div LimbBase) % LimbBase, n \div (LimbBase * LimbBase)>>)

RECURSIVE BigCompareFrom(_, _, _)
BigCompareFrom(a, b, i) ==
    IF i = 0 THEN 0
    ELSE IF a[i] # b[i] THEN Sign(a[i] - b[i])
    ELSE BigCompareFrom(a, b, i - 1)

BigCompare(a, b) ==
    IF Len(a) # Len(b) THEN Sign(Len(a) - Len(b)) ELSE BigCompareFrom(a, b, Len(a))

RECURSIVE BigAddFrom(_, _, _, _)
BigAddFrom(a, b, i, carry) ==
    IF i > Max(Len(a), Len(b))
    THEN IF carry = 0 THEN <<>> ELSE <<carry>>
    ELSE LET s == Limb(a, i) + Limb(b, i) + carry
         IN  <<s % LimbBase>> \o BigAddFrom(a, b, i + 1, s \div LimbBase)

BigAdd(a, b) == BigAddFrom(a, b, 1, 0)

\* a - b for a >= b
RECURSIVE BigSubFrom(_, _, _, _)
BigSubFrom(a, b, i, borrow) ==
    IF i > Len(a) THEN <<>>
    ELSE LET d == a[i] - Limb(b, i) - borrow
         IN  <<IF d < 0 THEN d + LimbBase ELSE d>>
             \o BigSubFrom(a, b, i + 1, IF d < 0 THEN 1 ELSE 0)

BigSub(a, b) == Strip(BigSubFrom(a, b, 1, 0))

RECURSIVE ColumnSum(_, _, _, _)
ColumnSum(a, b, k, i) ==
    IF i > Len(a) THEN 0 ELSE a[i] * Limb(b, k + 1 - i) + ColumnSum(a, b, k, i + 1)

RECURSIVE BigMulFrom(_, _, _, _)
BigMulFrom(a, b, k, carry) ==
    IF k > Len(a) + Len(b) THEN <<>>
    ELSE LET s == ColumnSum(a, b, k, 1) + carry
         IN  <<s % LimbBase>> \o BigMulFrom(a, b, k + 1, s \div LimbBase)

BigMul(a, b) == Strip(BigMulFrom(a, b, 1, 0))

RECURSIVE BitsOf(_)
BitsOf(n) == IF n = 0 THEN 0 ELSE 1 + BitsOf(n \div 2)

BitLength(a) == IF a = <<>> THEN 0 ELSE 14 * (Len(a) - 1) + BitsOf(a[Len(a)])

ShiftLeft(a, s) ==
    IF a = <<>> THEN <<>>
    ELSE [i \in 1 .. (s \div 14) |-> 0] \o BigMul(a, <<2 ^ (s % 14)>>)

ShiftRight(a, s) ==
    LET k == s \div 14
        r == s % 14
        d == IF k >= Len(a) THEN <<>> ELSE SubSeq(a, k + 1, Len(a))
    IN  Strip([i \in 1 .. Len(d) |->
                 (d[i] \div (2 ^ r)) + (Limb(d, i + 1) % (2 ^ r)) * (2 ^ (14 - r))])

BigIsOdd(a) == a # <<>> /\ (a[1] % 2) = 1

\* The quotient and the remainder of a natural by a small number.
RECURSIVE BigDivSmallFrom(_, _, _, _)
BigDivSmallFrom(a, d, i, rem) ==
    IF i = 0 THEN [q |-> <<>>, r |-> rem]
    ELSE LET x == rem * LimbBase + a[i]
             rest == BigDivSmallFrom(a, d, i - 1, x % d)
         IN  [q |-> rest.q \o <<x \div d>>, r |-> rest.r]

BigDivSmall(a, d) ==
    LET qr == BigDivSmallFrom(a, d, Len(a), 0) IN [q |-> Strip(qr.q), r |-> qr.r]

Double(neg, m, e) == [kind |-> "num", neg |-> neg, m |-> m, e |-> e]
DoubleNaN == [kind |-> "nan"]
DoubleInfinity(neg) == [kind |-> "inf", neg |-> neg]

\* The double nearest to n * 2^e, ties to the even mantissa.
RoundToDouble(neg, n, e) ==
    IF n = <<>> THEN Double(neg, <<>>, 0)
    ELSE LET len == BitLength(n) IN
         IF len <= 53 THEN Double(neg, ShiftLeft(n, 53 - len), e - (53 - len))
         ELSE LET s == len - 53
                  q == ShiftRight(n, s)
                  c == BigCompare(BigSub(n, ShiftLeft(q, s)), ShiftLeft(<<1>>, s - 1))
                  r == IF c > 0 \/ (c = 0 /\ BigIsOdd(q)) THEN BigAdd(q, <<1>>) ELSE q
              IN  IF BitLength(r) > 53
                  THEN Double(neg, ShiftRight(r, 1), e + s + 1)
                  ELSE Double(neg, r, e + s)

DoubleOfInt(n) == RoundToDouble(n < 0, BigOfInt(Abs(n)), 0)

IsZeroDouble(x) == x.kind = "num" /\ x.m = <<>>

DoubleTimes(x, y) ==
    IF x.kind = "nan" \/ y.kind = "nan" THEN DoubleNaN
    ELSE IF x.kind = "inf" \/ y.kind = "inf"
    THEN IF IsZeroDouble(x) \/ IsZeroDouble(y) THEN DoubleNaN
         ELSE DoubleInfinity(x.neg # y.neg)
    ELSE RoundToDouble(x.neg # y.neg, BigMul(x.m, y.m), x.e + y.e)

\* k more bits of the quotient of a long division of r * 2^k by d.
RECURSIVE DivideBits(_, _, _, _)
DivideBits(q, r, d, k) ==
    IF k = 0 THEN [q |-> q, r |-> r]
    ELSE LET r2 == BigAdd(r, r)
             q2 == BigAdd(q, q)
         IN  IF Len(q2) <= k + 55 /\ BigCompare(r2, d) >= 0
             THEN DivideBits(BigAdd(q2, <<1>>), BigSub(r2, d), d, k - 1)
             ELSE DivideBits(q2, r2, d, k - 1)

\* x.m * 2^55 / y.m has 55 or 56 bits; a bit below them records a remainder.
DoubleOver(x, y) ==
    IF x.kind = "nan" \/ y.kind = "nan" THEN DoubleNaN
    ELSE IF x.kind = "inf"
    THEN IF y.kind = "inf" THEN DoubleNaN ELSE DoubleInfinity(x.neg # y.neg)
    ELSE IF y.kind = "inf" THEN Double(x.neg # y.neg, <<>>, 0)
    ELSE IF IsZeroDouble(y)
    THEN IF IsZeroDouble(x) THEN DoubleNaN ELSE DoubleInfinity(x.neg # y.neg)
    ELSE IF IsZeroDouble(x) THEN Double(x.neg # y.neg, <<>>, 0)
    ELSE LET first == BigCompare(x.m, y.m) >= 0
             qr == DivideBits(IF first THEN <<1>> ELSE <<>>,
                              IF first THEN BigSub(x.m, y.m) ELSE x.m, y.m, 55)
             sticky == IF qr.r = <<>> THEN <<>> ELSE <<1>>
         IN  RoundToDouble(x.neg # y.neg, BigAdd(BigAdd(qr.q, qr.q), sticky),
                           x.e - y.e - 56)

\* The double a decimal literal n / den of the source text denotes.
Literal(n, den) == DoubleOver(DoubleOfInt(n), DoubleOfInt(den))

DoubleOne == DoubleOfInt(1)
DoubleZero == DoubleOfInt(0)

\* x < y for doubles that are numbers or infinite (every comparison with NaN is false)
MagnitudeLess(x, y) ==
    IF x.kind = "inf" THEN FALSE
    ELSE IF y.kind = "inf" THEN TRUE
    ELSE IF y.m = <<>> THEN FALSE
    ELSE IF x.m = <<>> THEN TRUE
    ELSE x.e < y.e \/ (x.e = y.e /\ BigCompare(x.m, y.m) < 0)

DoubleLess(x, y) ==
    IF x.kind = "nan" \/ y.kind = "nan" THEN FALSE
    ELSE IF IsZeroDouble(x) /\ IsZeroDouble(y) THEN FALSE
    ELSE IF x.neg # y.neg THEN x.neg
    ELSE IF x.neg THEN MagnitudeLess(y, x) ELSE MagnitudeLess(x, y)

DoubleEqual(x, y) ==
    /\ x.kind # "nan" /\ y.kind # "nan"
    /\ ~DoubleLess(x, y) /\ ~DoubleLess(y, x)

DoubleNegated(x) == IF x.kind = "nan" THEN x ELSE [x EXCEPT !.neg = ~x.neg]

\* x + y: the exact sum of the two values, rounded once.
DoublePlus(x, y) ==
    IF x.kind = "nan" \/ y.kind = "nan" THEN DoubleNaN
    ELSE IF x.kind = "inf"
    THEN IF y.kind = "inf" /\ x.neg # y.neg THEN DoubleNaN ELSE x
    ELSE IF y.kind = "inf" THEN y
    ELSE IF IsZeroDouble(x) THEN (IF IsZeroDouble(y) THEN Double(x.neg /\ y.neg, <<>>, 0) ELSE y)
    ELSE IF IsZeroDouble(y) THEN x
    ELSE LET e == IF x.e < y.e THEN x.e ELSE y.e
             a == ShiftLeft(x.m, x.e - e)
             b == ShiftLeft(y.m, y.e - e)
             c == BigCompare(a, b)
         IN  IF x.neg = y.neg THEN RoundToDouble(x.neg, BigAdd(a, b), e)
             ELSE IF c = 0 THEN Double(FALSE, <<>>, 0)
             ELSE IF c > 0 THEN RoundToDouble(x.neg, BigSub(a, b), e)
             ELSE RoundToDouble(y.neg, BigSub(b, a), e)

DoubleMinus(x, y) == DoublePlus(x, DoubleNegated(y))

-----------------------------------------------------------------------------
(* Distance, speed and fuel conversion                                      *)
(*                                                                          *)
(* A result field is the text the tool shows: the characters of the number   *)
(* and, last, the unit.                                                     *)

\* x >= y
DoubleAtLeast(x, y) == x.kind # "nan" /\ y.kind # "nan" /\ ~DoubleLess(x, y)

RECURSIVE BigDigits(_)
BigDigits(a) ==
    LET qr == BigDivSmall(a, 10)
    IN  IF qr.q = <<>> THEN <<DigitChar(qr.r)>> ELSE BigDigits(qr.q) \o <<DigitChar(qr.r)>>

\* Number.prototype.toFixed(digits), digits > 0: the integer nearest to
\* |x| * 10^digits, the larger of two equally near, written with a decimal point.
toFixed(x, digits) ==
    IF x.kind = "nan" THEN <<"NaN">>
    ELSE IF x.kind = "inf" THEN (IF x.neg THEN <<"-">> ELSE <<>>) \o <<"Infinity">>
    ELSE LET n == BigMul(x.m, BigOfInt(10 ^ digits))
             whole == IF x.e >= 0 THEN ShiftLeft(n, x.e) ELSE ShiftRight(n, -x.e)
             half == x.e < 0 /\ BigIsOdd(ShiftRight(n, -x.e - 1))
             parts == BigDivSmall(IF half THEN BigAdd(whole, <<1>>) ELSE whole, 10 ^ digits)
         IN  (IF x.neg /\ x.m # <<>> THEN <<"-">> ELSE <<>>)
             \o BigDigits(parts.q) \o <<".">> \o PadDigits(parts.r, digits)

DistanceUnit == {"m", "km", "nm", "ft", "sm"}

TO_M ==
    [m |-> DoubleOne, km |-> DoubleOfInt(1000), nm |-> DoubleOfInt(1852),
     ft |-> Literal(3048, 10000), sm |-> Literal(1609344, 1000)]

FROM_M ==
    [m |-> DoubleOne,
     km |-> DoubleOver(DoubleOne, DoubleOfInt(1000)),
     nm |-> DoubleOver(DoubleOne, DoubleOfInt(1852)),
     ft |-> DoubleOver(DoubleOne, Literal(3048, 10000)),
     sm |-> DoubleOver(DoubleOne, Literal(1609344, 1000))]

convertDistance_MetersOnly(value, fromUnit, toUnit) == DoubleTimes(value, TO_M[fromUnit])

convertDistance(value, fromUnit, toUnit) ==
    LET meters == DoubleTimes(value, TO_M[fromUnit])
    IN  DoubleTimes(meters, FROM_M[toUnit])

formatDistance(value) ==
    IF DoubleAtLeast(value, DoubleOfInt(1000)) THEN toFixed(value, 1)
    ELSE IF DoubleAtLeast(value, DoubleOfInt(100)) THEN toFixed(value, 2)
    ELSE IF DoubleAtLeast(value, DoubleOfInt(10)) THEN toFixed(value, 3)
    ELSE toFixed(value, 4)

DistanceLabel == [m |-> "m", km |-> "km", nm |-> "NM", ft |-> "ft", sm |-> "SM"]

DistanceInput(value, unit) == [kind |-> "distance", value |-> value, unit |-> unit]

DistanceConvert(value, unit) ==
    /\ tool = "distance-conversion"
    /\ input' = DistanceInput(value, unit)
    /\ IF value.kind = "nan"
       THEN /\ alertMsg' = "Please enter a valid numeric distance value."
            /\ UNCHANGED <<result, copyVars>>
       ELSE IF DoubleLess(value, DoubleZero)
       THEN /\ alertMsg' = "Distance value must be positive."
            /\ UNCHANGED <<result, copyVars>>
       ELSE /\ alertMsg' = ""
            /\ result' = [kind |-> "distance"] @@
                         [u \in DistanceUnit |->
                            formatDistance(convertDistance(value, unit, u))
                            \o <<" ", DistanceLabel[u]>>]
            /\ CopiedCleared
    /\ UNCHANGED <<variant, tool, shellVars>>

SpeedUnit == {"kt", "kmh", "ms", "ftmin"}

TO_MS ==
    [kt |-> Literal(514444, 10 ^ 6), kmh |-> DoubleOver(DoubleOne, Literal(36, 10)),
     ms |-> DoubleOne, ftmin |-> Literal(508, 10 ^ 5)]

FROM_MS ==
    [kt |-> DoubleOver(DoubleOne, Literal(514444, 10 ^ 6)), kmh |-> Literal(36, 10),
     ms |-> DoubleOne, ftmin |-> DoubleOver(DoubleOne, Literal(508, 10 ^ 5))]

convertSpeed(value, fromUnit, toUnit) ==
    LET ms == DoubleTimes(value, TO_MS[fromUnit])
    IN  DoubleTimes(ms, FROM_MS[toUnit])

formatSpeed(value) == formatDistance(value)

SpeedLabel == [kt |-> "kt", kmh |-> "km/h", ms |-> "m/s", ftmin |-> "ft/min"]

SpeedInput(value, unit) == [kind |-> "speed", value |-> value, unit |-> unit]

SpeedConvert(value, unit) ==
    /\ tool = "speed-conversion"
    /\ input' = SpeedInput(value, unit)
    /\ IF value.kind = "nan"
       THEN /\ alertMsg' = "Please enter a valid numeric speed value."
            /\ UNCHANGED <<result, copyVars>>
       ELSE IF DoubleLess(value, DoubleZero)
       THEN /\ alertMsg' = "Speed value must be positive."
            /\ UNCHANGED <<result, copyVars>>
       ELSE /\ alertMsg' = ""
            /\ result' = [kind |-> "speed"] @@
                         [u \in SpeedUnit |->
                            formatSpeed(convertSpeed(value, unit, u)) \o <<" ", SpeedLabel[u]>>]
            /\ CopiedCleared
    /\ UNCHANGED <<variant, tool, shellVars>>

FuelUnit == {"liters", "kg", "gallon", "pound"}

\* 3.785411784: its digits are 8 * 473176473, a product a double holds exactly.
LITERS_PER_GALLON ==
    DoubleOver(DoubleTimes(DoubleOfInt(8), DoubleOfInt(473176473)), DoubleOfInt(10 ^ 9))

KG_PER_POUND == Literal(45359237, 10 ^ 8)

convertToLiters(value, unit, density) ==
    CASE unit = "liters" -> value
      [] unit = "kg"     -> DoubleOver(value, density)
      [] unit = "gallon" -> DoubleTimes(value, LITERS_PER_GALLON)
      [] unit = "pound"  -> DoubleOver(DoubleTimes(value, KG_PER_POUND), density)

convertFuel(value, unit, density) ==
    LET liters == convertToLiters(value, unit, density)
        kg == DoubleTimes(liters, density)
    IN  [liters |-> liters, kg |-> kg,
         gallon |-> DoubleOver(liters, LITERS_PER_GALLON),
         pound |-> DoubleOver(kg, KG_PER_POUND)]

FuelInput(value, unit, density) ==
    [kind |-> "fuel", value |-> value, unit |-> unit, density |-> density]

\* The Angular component keeps the numbers; the class-based tool writes them with
\* two decimals into the result card.
FuelResult(v, converted) ==
    [kind |-> "fuel"] @@
    (IF v = "vanilla" THEN [u \in FuelUnit |-> toFixed(converted[u], 2)] ELSE converted)

\* The density field of the class-based tool is an <input type="number">, whose value
\* is never the text of an infinite number.
FuelConvert(value, unit, density) ==
    /\ tool = "fuel-conversion"
    /\ variant = "vanilla" => density.kind # "inf" /\ value.kind # "inf"
    /\ input' = FuelInput(value, unit, density)
    /\ IF value.kind = "nan"
       THEN /\ alertMsg' = "Please enter a valid numeric value."
            /\ UNCHANGED <<result, copyVars>>
       ELSE IF density.kind = "nan" \/ ~DoubleLess(DoubleZero, density)
       THEN /\ alertMsg' = "Please enter a valid density greater than 0."
            /\ UNCHANGED <<result, copyVars>>
       ELSE /\ alertMsg' = ""
            /\ result' = FuelResult(variant, convertFuel(value, unit, density))
            /\ CopiedCleared
    /\ UNCHANGED <<variant, tool, shellVars>>

\* The values the conversion forms are filled with.
DistanceValues == {DoubleNaN, DoubleOfInt(-1), DoubleOfInt(15)}
FewDistanceUnits == {"nm", "ft"}
SpeedValues == {DoubleNaN, DoubleOfInt(-1), DoubleOfInt(120)}
FewSpeedUnits == {"kt", "kmh"}
FuelValues == {DoubleNaN, DoubleOfInt(100)}
FewFuelUnits == {"liters", "pound"}
FuelDensities ==
    {DoubleNaN, DoubleInfinity(FALSE), DoubleOfInt(-1), DoubleZero, Literal(8, 10)}

-----------------------------------------------------------------------------
(* The theme                                                                *)
(*                                                                          *)
(* The store is the browser's localStorage; Absent is the null that getItem  *)
(* returns when the key was never written.                                  *)

Absent == "absent"

\* What an earlier visit, another version of the application or the user may have
\* left under the key.
StoredValues == {Absent, "", "light", "dark", "blue"}

OtherTheme(current) == IF current = "dark" THEN "light" ELSE "dark"

\* The theme the application starts with.  The Angular component and the React
\* function test the saved value against the two themes; the class-based menu takes
\* every non-empty string.
InitialTheme(v, saved) ==
    IF v = "vanilla"
    THEN IF saved = Absent \/ saved = "" THEN "dark" ELSE saved
    ELSE IF saved = "light" \/ saved = "dark" THEN saved ELSE "dark"

\* The state the constructor leaves.  The class-based menu applies the theme at once;
\* the other two leave that to an effect which has not run yet.
StartUp(saved) ==
    /\ theme = InitialTheme(variant, saved)
    /\ IF variant = "vanilla"
       THEN applied = theme /\ store = theme
       ELSE applied = "none" /\ store = saved

\* effect(...) of the Angular component, useEffect(..., [theme]) of the React one: it
\* runs after construction and after every change of the theme.
RunThemeEffect ==
    /\ variant # "vanilla"
    /\ applied # theme
    /\ applied' = theme
    /\ store' = theme
    /\ UNCHANGED <<variant, tool, input, result, alertMsg, rendered, theme, copyVars>>

\* A click on the theme button.  The effect of an earlier change has run by then.
toggleTheme ==
    /\ \/ /\ variant = "vanilla"
          /\ theme' = OtherTheme(theme)
          /\ applied' = theme'
          /\ store' = theme'
       \/ /\ variant # "vanilla"
          /\ applied = theme
          /\ theme' = OtherTheme(theme)
          /\ UNCHANGED <<applied, store>>
    /\ UNCHANGED <<variant, tool, input, result, alertMsg, rendered, copyVars>>

-----------------------------------------------------------------------------
(* The tool container                                                       *)

Tools == {"minima", "altitude-correction", "coordinates-conversion", "turn-calculator",
          "approach-table", "flyby-turn", "head-cross-wind", "track-ground-speed",
          "distance-conversion", "fuel-conversion", "speed-conversion"}

\* The fly-by tool exists as an Angular component only, the two wind tools as Angular
\* components and React modules, the fuel and the speed conversion as Angular
\* components and class-based tools.
ToolsOf(v) ==
    CASE v = "angular" -> Tools
      [] v = "react"   -> Tools \ {"flyby-turn", "fuel-conversion", "speed-conversion"}
      [] OTHER         -> Tools \ {"flyby-turn", "head-cross-wind", "track-ground-speed"}

\* The Angular menu: the ids of its two groups (menu.component.ts) ...
navigationToolIds ==
    <<"minima-altitude-height", "altitude-correction", "approach-table", "flyby-turn",
      "turn-calculator", "head-cross-wind", "track-ground-speed">>

conversionToolIds ==
    <<"coordinates-conversion", "distance-conversion", "fuel-conversion", "speed-conversion">>

\* ... and the ids of the tools list the menu is given (tool-route.component.ts).
tools ==
    <<"altitude-correction", "approach-table", "head-cross-wind", "minima",
      "track-ground-speed", "turn-calculator", "coordinates-conversion",
      "distance-conversion", "fuel-conversion", "speed-conversion">>

IdsOf(ids) == {ids[i] : i \in DOMAIN ids}

\* getToolsByIds: the ids that name a tool of the list, in the order given.
getToolsByIds(ids) == SelectSeq(ids, LAMBDA id : id \in IdsOf(tools))

NothingRendered == [t \in Tools |-> 0]

destroy(counts, t) == IF t = "none" THEN counts ELSE [counts EXCEPT ![t] = @ - 1]
render(counts, t) == [counts EXCEPT ![t] = @ + 1]

\* ToolContainer.showTool: the current tool, if there is one, is destroyed, then the
\* new one becomes current and is rendered.
showTool_NoDestroy(counts, current, t) == render(counts, t)

showTool(counts, current, t) == render(destroy(counts, current), t)

\* A tool starts with no copy in progress and no 'Copied!' shown.
NoCopies ==
    /\ copiedField = "none"
    /\ copies = {}
    /\ timers = {}
    /\ lastCopy = NoCopy

\* The component that is replaced takes its copies and timers with it.
CopiesDropped ==
    /\ copiedField' = "none"
    /\ copies' = {}
    /\ timers' = {}
    /\ lastCopy' = NoCopy

\* Mounting a tool builds a fresh component: no result, empty form.  The router and
\* the React state do nothing when the tool chosen is the one shown; the class-based
\* container renders it again.
SelectTool(t) ==
    /\ tool # t \/ variant = "vanilla"
    /\ t \in ToolsOf(variant)
    /\ tool' = t
    /\ rendered' = showTool(rendered, tool, t)
    /\ input' = NoInput
    /\ result' = Null
    /\ alertMsg' = ""
    /\ CopiesDropped
    /\ UNCHANGED <<variant, theme, applied, store, now>>

\* ToolContainer.clear
clear ==
    /\ variant = "vanilla"
    /\ tool' = "none"
    /\ rendered' = destroy(rendered, tool)
    /\ input' = NoInput
    /\ result' = Null
    /\ alertMsg' = ""
    /\ CopiesDropped
    /\ UNCHANGED <<variant, theme, applied, store, now>>

\* A freshly loaded page: no tool but the mounted one rendered, no theme saved.
FreshPage ==
    /\ rendered = [t \in Tools |-> IF t = tool THEN 1 ELSE 0]
    /\ StartUp(Absent)
    /\ NoCopies
    /\ now = 0

Init ==
    /\ variant \in Variants
    /\ tool = "none"
    /\ input = NoInput
    /\ result = Null
    /\ alertMsg = ""
    /\ FreshPage

Next ==
    \/ \E t \in Tools : SelectTool(t)
    \/ \E oca \in MinimaOca, och \in MinimaOch, am \in MinimaAircraft, m \in MinimaMargin :
          MinimaCalculate(oca, och, am, m)
    \/ \E da \in AltitudeFeet, aa \in AltitudeFeet, t \in AltitudeTemps :
          AltitudeCalculate(da, aa, t)
    \/ \E format \in LatLonFormats : \E latText \in FewLatTexts : \E lonText \in FewLonTexts :
          ConvertCoordinates(format, latText, lonText, <<>>, NoLibraryCall)
    \/ \E mgrsText \in FewMgrsTexts : \E library \in FewLibraryOutcomes :
          ConvertCoordinates("mgrs", <<>>, <<>>, mgrsText, library)
    \/ \E speed \in TurnSpeeds, bankAngle \in TurnBanks : TurnCalculate(speed, bankAngle)
    \/ \E revision \in ApproachRevisions, targetAltitude \in ApproachAltitudes,
          slopeAngle \in ApproachSlopes, altitudeUnit \in AltitudeUnits,
          distanceUnit \in DistanceUnits :
          ApproachCalculate(revision, targetAltitude, slopeAngle, altitudeUnit, distanceUnit)
    \/ \E inboundTrack \in FlybyTracks, outboundTrack \in FlybyTracks, bankAngle \in FlybyBanks,
          groundSpeed \in FlybySpeeds, unit \in FlybyUnits :
          FlybyCalculate(inboundTrack, outboundTrack, bankAngle, groundSpeed, unit)
    \/ \E speed \in WindSpeeds, direction \in WindDirections, heading \in WindDirections :
          WindCalculate(speed, direction, heading)
    \/ \E windDirection \in TrackDirections, windSpeed \in TrackSpeeds,
          heading \in TrackDirections, tas \in TrackSpeeds :
          TrackCalculate(windDirection, windSpeed, heading, tas)
    \/ \E value \in DistanceValues, unit \in FewDistanceUnits : DistanceConvert(value, unit)
    \/ \E value \in SpeedValues, unit \in FewSpeedUnits : SpeedConvert(value, unit)
    \/ \E value \in FuelValues, unit \in FewFuelUnits, density \in FuelDensities :
          FuelConvert(value, unit, density)

Spec == Init /\ [][Next]_vars

\* One run of the minima handler on a freshly mounted tool, over MinimaFeet.
InitMinima ==
    /\ variant \in Variants
    /\ tool = "minima"
    /\ input = NoInput
    /\ result = Null
    /\ alertMsg = ""
    /\ FreshPage

NextMinima ==
    \E oca \in MinimaFeet, och \in MinimaFeet, am \in MinimaFeet, m \in MinimaFeet :
        /\ input = NoInput
        /\ MinimaCalculate(oca, och, am, m)

SpecMinima == InitMinima /\ [][NextMinima]_vars

-----------------------------------------------------------------------------
(* Coordinate conversion: one application of a parser                       *)

\* An axis text is written from its parts: a direction letter in front, the degree
\* number, the minutes, the seconds (or none), a direction letter behind, in one of
\* three styles of marks:  48deg30'15"   48 30 15   48deg 30' 15"
AxisPrefixes == {<<>>, <<"N">>, <<"s", " ">>, <<"E">>}
AxisSuffixes == {<<>>, <<"N">>, <<" ", "S">>, <<" ", "w">>}
AxisDegrees == {<<"4", "8">>, <<"-", "4", "8">>, <<"-", "0">>}
AxisMinutes == {<<"3", "0">>, <<"7", ".", "5">>, <<"6", "0">>}
AxisSeconds == {<<>>, <<"1", "5">>, <<"4", "2", ".", "8">>}
AxisStyles ==
    {[degreeMark |-> <<"deg">>, minuteMark |-> <<"'">>, secondMark |-> <<"\"">>],
     [degreeMark |-> <<" ">>, minuteMark |-> <<" ">>, secondMark |-> <<>>],
     [degreeMark |-> <<"deg", " ">>, minuteMark |-> <<"'", " ">>, secondMark |-> <<"\"">>]}

AxisParts(prefix, degrees, minutes, seconds, suffix, style) ==
    [prefix |-> prefix, degrees |-> degrees, minutes |-> minutes, seconds |-> seconds,
     suffix |-> suffix, style |-> style]

\* With no seconds the minute mark is written only if it is not a space.
AxisText(parts) ==
    parts.prefix \o parts.degrees \o parts.style.degreeMark \o parts.minutes
    \o (IF parts.seconds # <<>>
        THEN parts.style.minuteMark \o parts.seconds \o parts.style.secondMark
        ELSE IF parts.style.minuteMark = <<" ">> THEN <<>> ELSE parts.style.minuteMark)
    \o parts.suffix

\* What one application of parseCoordinateString leaves behind.
AxisOutcome(parsed) ==
    IF parsed.ok
    THEN /\ alertMsg' = ""
         /\ result' = [kind |-> "axis", value |-> parsed.value]
    ELSE /\ alertMsg' = parsed.error
         /\ UNCHANGED result

\* parseCoordinateString applied to one axis text.
ParseAxis(parts, expectSeconds, isLat) ==
    /\ tool = "coordinates-conversion"
    /\ input' = [kind |-> "axis", text |-> AxisText(parts), parts |-> parts,
                 expectSeconds |-> expectSeconds, isLat |-> isLat]
    /\ AxisOutcome(parseCoordinateString(variant, AxisText(parts), expectSeconds, isLat))
    /\ UNCHANGED <<variant, tool, shellVars, copyVars>>

\* Valid pairs, in units: the corners of the range, zero, a latitude a thousandth of a
\* minute off a whole minute's fraction, one a unit short of a whole degree, one five
\* hundredths of a second short of a whole minute.
RoundTripLats ==
    {0, 90 * UnitsPerDegree, -(90 * UnitsPerDegree),
     48 * UnitsPerDegree + 51 * UnitsPerMinute + 502 * (UnitsPerMinute \div 1000),
     -(33 * UnitsPerDegree + 52 * UnitsPerMinute + 7 * UnitsPerSecond),
     11 * UnitsPerDegree - 1,
     48 * UnitsPerDegree + 6 * UnitsPerMinute - UnitsPerSecond \div 25}

RoundTripLons ==
    {180 * UnitsPerDegree, -(180 * UnitsPerDegree),
     14 * UnitsPerDegree + 26 * UnitsPerMinute + 96 * (UnitsPerSecond \div 10),
     -(122 * UnitsPerDegree + 22 * UnitsPerMinute + 30 * UnitsPerSecond)}

FormatPair(v, format, lat, lon) == buildCoordinateResults(v, lat, lon)[format]

\* Parse the two texts a pair was formatted to with the parser of the same format.
ParseFormatted(format, lat, lon, texts) ==
    /\ input' = [kind |-> "roundtrip", format |-> format, lat |-> lat, lon |-> lon,
                 texts |-> texts]
    /\ displayResults("roundtrip",
                      parseCoordinates(variant, format, texts[1], texts[2], <<>>,
                                       NoLibraryCall))

\* Format a pair, then parse the two texts with the parser of the same format.
RoundTrip(format, lat, lon) ==
    /\ tool = "coordinates-conversion"
    /\ ParseFormatted(format, lat, lon, FormatPair(variant, format, lat, lon))
    /\ UNCHANGED <<variant, tool, shellVars, copyVars>>

InitCoordinates ==
    /\ variant \in Variants
    /\ tool = "coordinates-conversion"
    /\ input = NoInput
    /\ result = Null
    /\ alertMsg = ""
    /\ FreshPage

\* One application, to a freshly mounted tool, of the convert handler, of
\* parseCoordinateString or of a formatter followed by its parser.
ConvertOnce ==
    /\ input = NoInput
    /\ \/ \E format \in LatLonFormats : \E latText \in LatTexts : \E lonText \in LonTexts :
             ConvertCoordinates(format, latText, lonText, <<>>, NoLibraryCall)
       \/ \E mgrsText \in MgrsTexts : \E library \in MgrsLibraryOutcomes :
             ConvertCoordinates("mgrs", <<>>, <<>>, mgrsText, library)

ParseAxisOnce ==
    /\ input = NoInput
    /\ \E prefix \in AxisPrefixes : \E degrees \in AxisDegrees : \E minutes \in AxisMinutes :
       \E seconds \in AxisSeconds : \E suffix \in AxisSuffixes : \E style \in AxisStyles :
       \E expectSeconds \in BOOLEAN : \E isLat \in BOOLEAN :
           ParseAxis(AxisParts(prefix, degrees, minutes, seconds, suffix, style),
                     expectSeconds, isLat)

RoundTripOnce ==
    /\ input = NoInput
    /\ \E format \in LatLonFormats : \E lat \in RoundTripLats : \E lon \in RoundTripLons :
           RoundTrip(format, lat, lon)

NextCoordinates == ConvertOnce \/ ParseAxisOnce \/ RoundTripOnce

SpecCoordinates == InitCoordinates /\ [][NextCoordinates]_vars

-----------------------------------------------------------------------------
(* Navigation: one application of a function                                *)

\* Whole degrees from -720 to 720 by steps of 45, and the directions of a form.
Turns == {Degrees(45 * k) : k \in -16 .. 16}
FewTinyAngles == {Tiny(-5000), Tiny(-1000), Tiny(-1), Tiny(1), Tiny(5000)}
AnyAngles == Turns \cup FewTinyAngles \cup {Exact(-1), Exact(1), Exact(360 * Million + 1),
                                            Exact(-720 * Million - 1)}
Directions == {Degrees(15 * k) : k \in 0 .. 24}

MaxBank == 91
MaxSlope == 60
MaxWindTenths == 30

OnceTracks == {Zero, Tiny(1), Tiny(5000), Exact(1), Degrees(1), Degrees(89), Degrees(90),
               Exact(90 * Million + 500000), Degrees(91), Degrees(180), Degrees(269),
               Exact(269 * Million + 500000), Degrees(270), Degrees(360), Degrees(-90),
               Degrees(450)}
OnceBanks == {NaN, -5, 0, 1, 25, 89, 90, 120, 180}
OnceSpeeds == {NaN, -1, 0, 1, 160, 500}

Applied(function, arguments, value) ==
    /\ input' = [kind |-> function, arguments |-> arguments]
    /\ result' = [kind |-> function, value |-> value]
    /\ alertMsg' = ""
    /\ UNCHANGED <<variant, tool, shellVars, copyVars>>

FlybyOnce ==
    /\ input = NoInput
    /\ \E bankAngleDeg \in OnceBanks, groundSpeedKt \in OnceSpeeds,
          inboundTrackDeg \in OnceTracks, outboundTrackDeg \in OnceTracks :
           Applied("computeTurnAnticipationDistance",
                   <<bankAngleDeg, groundSpeedKt, inboundTrackDeg, outboundTrackDeg>>,
                   computeTurnAnticipationDistance(bankAngleDeg, groundSpeedKt,
                                                   inboundTrackDeg, outboundTrackDeg))

TurnOnce ==
    /\ input = NoInput
    /\ \E speedKnots \in {1, 10, 120, 150, 300}, bankAngle \in -89 .. MaxBank :
           Applied("calculateTurn", <<speedKnots, bankAngle>>, calculateTurn(speedKnots, bankAngle))

ApproachOnce ==
    /\ input = NoInput
    /\ \E v \in Variants, revision \in ApproachRevisions, targetAltitude \in {Exact(-20000), Zero, Exact(150000)},
          slopeAngle \in {Degrees(d) : d \in 0 .. MaxSlope} \cup {Tiny(1), Exact(500000), Exact(2500000)},
          distanceUnit \in DistanceUnits :
           Applied("calculateApproachTable",
                   <<v, revision, targetAltitude, slopeAngle, distanceUnit>>,
                   ApproachTableOf(v, revision, targetAltitude, slopeAngle, distanceUnit))

NormalizeOnce ==
    /\ input = NoInput
    /\ \E value \in AnyAngles : Applied("normalizeDegrees", <<value>>, normalizeDegrees(value))

WindComponentsOnce ==
    /\ input = NoInput
    /\ \E windSpeed \in 0 .. MaxWindTenths, windDirection \in Directions, aircraftHeading \in Directions :
           Applied("calculateWindComponents", <<windSpeed, windDirection, aircraftHeading>>,
                   calculateWindComponents(windSpeed, windDirection, aircraftHeading))

GroundVectorOnce ==
    /\ input = NoInput
    /\ \E heading \in Directions, tas \in {0, 50, 100}, windFromDirection \in Directions,
          windSpeed \in {0, 50, 100} :
           Applied("calculateGroundVector", <<heading, tas, windFromDirection, windSpeed>>,
                   calculateGroundVector(heading, tas, windFromDirection, windSpeed))

InitNavigation ==
    /\ variant = "angular"
    /\ tool = "none"
    /\ input = NoInput
    /\ result = Null
    /\ alertMsg = ""
    /\ FreshPage

NextNavigation ==
    \/ FlybyOnce
    \/ TurnOnce
    \/ ApproachOnce
    \/ NormalizeOnce
    \/ WindComponentsOnce
    \/ GroundVectorOnce

SpecNavigation == InitNavigation /\ [][NextNavigation]_vars

-----------------------------------------------------------------------------
(* Conversions: one application of a function                               *)

\* The values converted are 0, 0.1, 0.2, ... up to MaxTenths tenths.
MaxTenths == 60

ConversionValues == {Literal(k, 10) : k \in 0 .. MaxTenths}
OnceDensities == {Literal(72, 100), Literal(8, 10), DoubleOne}

ConvertDistanceOnce ==
    /\ input = NoInput
    /\ \E value \in ConversionValues, fromUnit \in DistanceUnit, toUnit \in DistanceUnit :
           Applied("convertDistance", <<value, fromUnit, toUnit>>,
                   convertDistance(value, fromUnit, toUnit))

ConvertSpeedOnce ==
    /\ input = NoInput
    /\ \E value \in ConversionValues, fromUnit \in SpeedUnit, toUnit \in SpeedUnit :
           Applied("convertSpeed", <<value, fromUnit, toUnit>>,
                   convertSpeed(value, fromUnit, toUnit))

ConvertFuelOnce ==
    /\ input = NoInput
    /\ \E value \in ConversionValues, unit \in FuelUnit, density \in OnceDensities :
           Applied("convertFuel", <<value, unit, density>>, convertFuel(value, unit, density))

InitConversions ==
    /\ variant = "angular"
    /\ tool = "none"
    /\ input = NoInput
    /\ result = Null
    /\ alertMsg = ""
    /\ FreshPage

NextConversions == ConvertDistanceOnce \/ ConvertSpeedOnce \/ ConvertFuelOnce

SpecConversions == InitConversions /\ [][NextConversions]_vars

-----------------------------------------------------------------------------
(* Minima: feet with a fraction                                             *)
(*                                                                          *)
(* The form fields are read with parseFloat, which takes 150.2 as readily   *)
(* as 150; calculateMinima then adds and subtracts doubles.                 *)

\* Mutant: the aircraft minima raise the altitude and leave the height at the OCH.
calculateMinimaInDoubles_AltitudeOnly(oca, och, aircraftMinima, operatorMargin) ==
    LET usesAircraftMinima == DoubleLess(och, aircraftMinima)
        aircraftAdjustment == IF usesAircraftMinima THEN DoubleMinus(aircraftMinima, och)
                              ELSE DoubleZero
    IN  [decisionAltitude   |-> DoublePlus(DoublePlus(oca, aircraftAdjustment),
                                           operatorMargin),
         decisionHeight     |-> DoublePlus(och, operatorMargin),
         usesAircraftMinima |-> usesAircraftMinima,
         aircraftAdjustment |-> aircraftAdjustment]

calculateMinimaInDoubles(oca, och, aircraftMinima, operatorMargin) ==
    LET usesAircraftMinima == DoubleLess(och, aircraftMinima)
        aircraftAdjustment == IF usesAircraftMinima THEN DoubleMinus(aircraftMinima, och)
                              ELSE DoubleZero
        decisionAltitude   == DoublePlus(DoublePlus(oca, aircraftAdjustment), operatorMargin)
        decisionHeight     == DoublePlus(IF usesAircraftMinima THEN aircraftMinima ELSE och,
                                         operatorMargin)
    IN  [decisionAltitude   |-> decisionAltitude,
         decisionHeight     |-> decisionHeight,
         usesAircraftMinima |-> usesAircraftMinima,
         aircraftAdjustment |-> aircraftAdjustment]

\* Tenths of a foot: whole feet and feet with a fraction, small and large, with the
\* OCH below, at and above the aircraft minima.
OcaTenths == {0, 1, 12000, 12001, 12003}
OchTenths == {3, 1500, 1502, 4000}
AircraftTenths == {7, 1502, 3000, 3001}
MarginTenths == {0, 1, 250, 254}

MinimaInDoublesOnce ==
    /\ input = NoInput
    /\ \E oca \in OcaTenths, och \in OchTenths, am \in AircraftTenths, m \in MarginTenths :
           Applied("calculateMinima", <<oca, och, am, m>>,
                   calculateMinimaInDoubles(Literal(oca, 10), Literal(och, 10),
                                            Literal(am, 10), Literal(m, 10)))

InitMinimaInDoubles ==
    /\ variant \in Variants
    /\ tool = "minima"
    /\ input = NoInput
    /\ result = Null
    /\ alertMsg = ""
    /\ FreshPage

NextMinimaInDoubles == MinimaInDoublesOnce

SpecMinimaInDoubles == InitMinimaInDoubles /\ [][NextMinimaInDoubles]_vars

-----------------------------------------------------------------------------
(* The shell: theme and tool container                                      *)

\* The page is loaded with any of the stored values under the key.
InitShell ==
    /\ variant \in Variants
    /\ tool = "none"
    /\ input = NoInput
    /\ result = Null
    /\ alertMsg = ""
    /\ rendered = NothingRendered
    /\ \E saved \in StoredValues : StartUp(saved)
    /\ NoCopies
    /\ now = 0

NextShell ==
    \/ \E t \in Tools : SelectTool(t)
    \/ clear
    \/ toggleTheme
    \/ RunThemeEffect

SpecShell == InitShell /\ [][NextShell]_vars

-----------------------------------------------------------------------------
(* Copying a result field                                                   *)
(*                                                                          *)
(* copy(field) of the Angular components and handleCopy(field) of the React  *)
(* ones: the call waits for copyToClipboard, and the code after the await     *)
(* runs as a step of its own.  The tool is the distance conversion, which    *)
(* both variants have.                                                      *)

COPIED_MS == 1500

\* The clock advances by TickMs up to MaxTime.
TickMs == 500
MaxTime == 3000

CopyFields == {"nm", "ft"}

\* copy(field) up to the await: nothing happens without results.
copy(field) ==
    /\ tool = "distance-conversion"
    /\ result # Null
    /\ copies' = copies \cup {field}
    /\ UNCHANGED <<variant, tool, input, result, alertMsg, shellVars,
                   copiedField, timers, now, lastCopy>>

\* copy(field) after the await: on success the field is
\* marked and a timer is set that takes the mark off, whichever field then has it.
copyResumes(field, success) ==
    /\ field \in copies
    /\ copies' = copies \ {field}
    /\ IF success
       THEN /\ copiedField' = field
            /\ timers' = timers \cup {now + COPIED_MS}
            /\ lastCopy' = [field |-> field, time |-> now]
            /\ UNCHANGED alertMsg
       ELSE /\ alertMsg' = "Unable to copy to clipboard."
            /\ UNCHANGED <<copiedField, timers, lastCopy>>
    /\ UNCHANGED <<variant, tool, input, result, shellVars, now>>

\* setTimeout(() => copiedField.set(null), 1500): a timer that is due fires.
ResetTimerFires ==
    \E due \in timers :
        /\ due <= now
        /\ timers' = timers \ {due}
        /\ copiedField' = "none"
        /\ UNCHANGED <<variant, tool, input, result, alertMsg, shellVars,
                       copies, now, lastCopy>>

\* Time passes once the timers that are due have fired.
Tick ==
    /\ now + TickMs <= MaxTime
    /\ \A due \in timers : due > now
    /\ now' = now + TickMs
    /\ UNCHANGED <<variant, tool, input, result, alertMsg, shellVars,
                   copiedField, copies, timers, lastCopy>>

InitCopy ==
    /\ variant \in {"angular", "react"}
    /\ tool = "distance-conversion"
    /\ input = NoInput
    /\ result = Null
    /\ alertMsg = ""
    /\ FreshPage

NextCopy ==
    \/ DistanceConvert(DoubleOfInt(15), "nm")
    \/ \E field \in CopyFields : copy(field)
    \/ \E field \in CopyFields, success \in BOOLEAN : copyResumes(field, success)
    \/ ResetTimerFires
    \/ Tick

SpecCopy == InitCopy /\ [][NextCopy]_vars

-----------------------------------------------------------------------------
(* What the last handler run did                                            *)

\* The last handler run of tool k accepted its input and published result.
Published(k) == input.kind = k /\ alertMsg = "" /\ result.kind = k

MinimaFields(i) == {i.oca, i.och, i.aircraftMinima, i.operatorMargin}

-----------------------------------------------------------------------------
(* Minima                                                                   *)

\* C1: for non-negative oca, och, aircraftMinima and operatorMargin the result has
\* usesAircraftMinima = (och < aircraftMinima), aircraftAdjustment = aircraftMinima - och
\* when usesAircraftMinima and 0 otherwise, decisionAltitude = oca + aircraftAdjustment
\* + operatorMargin, decisionHeight = (aircraftMinima if usesAircraftMinima, else och)
\* + operatorMargin.
C1_MinimaContract ==
    (Published("minima") /\ \A x \in MinimaFields(input) : x >= 0) =>
        /\ result.usesAircraftMinima = (input.och < input.aircraftMinima)
        /\ result.usesAircraftMinima =>
              result.aircraftAdjustment = input.aircraftMinima - input.och
        /\ ~result.usesAircraftMinima => result.aircraftAdjustment = 0
        /\ result.decisionAltitude =
              input.oca + result.aircraftAdjustment + input.operatorMargin
        /\ result.usesAircraftMinima =>
              result.decisionHeight = input.aircraftMinima + input.operatorMargin
        /\ ~result.usesAircraftMinima =>
              result.decisionHeight = input.och + input.operatorMargin

\* The aircraft minima override a lower OCH, with an operator margin on top.
C1_Witness ==
    /\ Published("minima")
    /\ \A x \in MinimaFields(input) : x >= 0
    /\ input.och < input.aircraftMinima
    /\ input.operatorMargin > 0
    /\ result.aircraftAdjustment > 0

\* C2: for every input the validation accepts, decisionHeight is the higher of OCH and
\* aircraft minima plus the operator margin, and aircraftAdjustment is never negative.
C2_ConservativeHeight ==
    Published("minima") =>
        /\ result.decisionHeight =
              Max(input.och, input.aircraftMinima) + input.operatorMargin
        /\ result.decisionHeight >= input.och + input.operatorMargin
        /\ result.decisionHeight >= input.aircraftMinima + input.operatorMargin
        /\ result.aircraftAdjustment >= 0

\* An accepted input whose OCH is above the aircraft minima: the published OCH governs.
C2_Witness ==
    /\ Published("minima")
    /\ input.och > input.aircraftMinima
    /\ input.aircraftMinima > 0
    /\ result.decisionHeight = input.och + input.operatorMargin

\* C5: a minima calculation with a negative oca, och, aircraftMinima or operatorMargin
\* raises a validation error and publishes no new result.
C5_NegativeRejected ==
    [][(input'.kind = "minima" /\ \E x \in MinimaFields(input') : ~IsNaN(x) /\ x < 0)
          => (alertMsg' # "" /\ result' = result)]_vars

-----------------------------------------------------------------------------
(* Temperature / altitude correction                                        *)

\* 1000 * (ISA temperature at the airport elevation), from the claim's formula
\* isaTemp = 15 - 2 * elevation / 1000.
IsaTemp1000(elevation) == 15000 - 2 * elevation

\* C3: for airportElevation < decisionAltitude the correction is positive exactly when
\* the outside air temperature is colder than ISA at the airport elevation and negative
\* exactly when it is warmer, and correctedAltitude = decisionAltitude + correction.
C3_CorrectionSign ==
    (Published("altitude-correction") /\ input.airportAlt < input.decisionAlt) =>
        /\ RatSign(result.correction) = 1
              <=> input.temperature * 1000 < IsaTemp1000(input.airportAlt)
        /\ RatSign(result.correction) = -1
              <=> input.temperature * 1000 > IsaTemp1000(input.airportAlt)
        /\ result.correctedAltitude =
              RatAddInt(input.decisionAlt, result.correction)

\* C4: an altitude-correction calculation with airportElevation >= decisionAltitude
\* raises a validation error and produces no corrected altitude.
C4_ElevationRejected ==
    [][(/\ input'.kind = "altitude-correction"
        /\ ~IsNaN(input'.decisionAlt) /\ ~IsNaN(input'.airportAlt)
        /\ ~IsNaN(input'.temperature)
        /\ input'.airportAlt >= input'.decisionAlt)
          => (alertMsg' # "" /\ result' = result)]_vars

-----------------------------------------------------------------------------
(* Coordinate conversion                                                    *)

InRange(lat, lon) ==
    /\ -90 * UnitsPerDegree <= lat /\ lat <= 90 * UnitsPerDegree
    /\ -180 * UnitsPerDegree <= lon /\ lon <= 180 * UnitsPerDegree

\* The two axes the fields i denote, as the parser of the selected format reads them
\* before it checks any range: [read, lat, lon], read being false when a field cannot
\* be read at all.
AxesOfDecimals(lat, lon) ==
    IF lat.nan \/ lon.nan THEN [read |-> FALSE]
    ELSE [read |-> TRUE, lat |-> SignedDegreeUnits(lat), lon |-> SignedDegreeUnits(lon)]

AxesOfAngles(lat, lon) ==
    IF ~lat.ok \/ ~lon.ok THEN [read |-> FALSE]
    ELSE [read |-> TRUE, lat |-> lat.value, lon |-> lon.value]

AxesRead(v, i) ==
    CASE i.format = "dd" -> AxesOfDecimals(parseFloat(i.lat), parseFloat(i.lon))
      [] i.format \in {"dm", "dms"} ->
            AxesOfAngles(parseCoordinateString(v, i.lat, i.format = "dms", TRUE),
                         parseCoordinateString(v, i.lon, i.format = "dms", FALSE))
      [] i.format = "mgrs" ->
            IF trim(i.mgrs) = <<>> \/ i.library.throws THEN [read |-> FALSE]
            ELSE [read |-> TRUE, lat |-> i.library.lat, lon |-> i.library.lon]

OutOfRange(axes) == axes.read /\ ~InRange(axes.lat, axes.lon)

\* C6: every pair a parser (DD, DM, DMS or MGRS) returns has -90 <= lat <= 90 and
\* -180 <= lon <= 180; when either axis read from the fields is out of range the parse
\* fails and no pair is returned.
C6_PairInRange ==
    input.kind = "coordinates" =>
        /\ Published("coordinates") => InRange(result.lat, result.lon)
        /\ OutOfRange(AxesRead(variant, input)) =>
              (alertMsg # "" /\ result.kind # "coordinates")

\* The corner of the range, latitude 90 and longitude -180 written as DMS, is returned.
C6_Witness ==
    /\ Published("coordinates")
    /\ input.format = "dms"
    /\ result.lat = 90 * UnitsPerDegree
    /\ result.lon = -(180 * UnitsPerDegree)

\* 1e-4 degrees, in units.
Tolerance == UnitsPerDegree \div 10000

\* C7: formatting a valid pair as DD, DM or DMS and parsing the texts back with the
\* parser of the same format succeeds and gives the pair back within 1e-4 degrees.
C7_RoundTrip ==
    input.kind = "roundtrip" =>
        /\ Published("roundtrip")
        /\ Abs(result.lat - input.lat) <= Tolerance
        /\ Abs(result.lon - input.lon) <= Tolerance

\* The direction letters in a text, upper-cased.
LettersOf(text) ==
    {toUpperCase(<<text[i]>>) : i \in DOMAIN text} \cap {<<c>> : c \in DirChars}

\* The direction letters an axis text was written with.
WrittenLetters(parts) == LettersOf(parts.prefix) \cup LettersOf(parts.suffix)

HasLetter(text) == LettersOf(text) # {}

\* C8: a DMS input is accepted only if exactly one direction letter is present, in
\* front or behind; with none, or with one in front and one behind, it is rejected.
C8_ExactlyOneDirection ==
    (input.kind = "axis" /\ input.expectSeconds /\ Published("axis")) =>
        (HasLetter(input.parts.prefix) # HasLetter(input.parts.suffix))

\* |degrees| + minutes/60 + seconds/3600 of the numbers an axis text was written with.
WrittenMagnitude(parts) ==
    DegreeUnits(parseFloat(parts.degrees))
    + DecimalUnits(parseFloat(parts.minutes), UnitsPerMinute)
    + (IF parts.seconds = <<>> THEN 0
       ELSE DecimalUnits(parseFloat(parts.seconds), UnitsPerSecond))

\* The sign the degree number was written with.
WrittenSign(parts) == IF parts.degrees[1] = "-" THEN -1 ELSE 1

\* C9: a DM input without a direction letter parses to the sign of the degree number
\* as written times |degrees| + minutes/60 + seconds/3600; with a direction letter the
\* value is minus that magnitude for S and W and plus that magnitude for N and E,
\* whatever the sign of the degree number.
C9_SignOfDmInput ==
    (input.kind = "axis" /\ ~input.expectSeconds /\ Published("axis")) =>
        /\ WrittenLetters(input.parts) = {} =>
              result.value = WrittenSign(input.parts) * WrittenMagnitude(input.parts)
        /\ (WrittenLetters(input.parts) # {}
            /\ WrittenLetters(input.parts) \subseteq {<<"S">>, <<"W">>}) =>
              result.value = -WrittenMagnitude(input.parts)
        /\ (WrittenLetters(input.parts) # {}
            /\ WrittenLetters(input.parts) \subseteq {<<"N">>, <<"E">>}) =>
              result.value = WrittenMagnitude(input.parts)

\* The MGRS field is not empty and the library threw on what it was given.
LibraryThrew ==
    /\ input.kind = "coordinates"
    /\ input.format = "mgrs"
    /\ input.mgrs # <<>>
    /\ input.cleaned # <<>>
    /\ input.library.throws

\* C10: for every non-empty MGRS input on which the library throws, parseMgrs raises
\* the one "Invalid MGRS coordinate" error, and no message of the library reaches the
\* caller.
C10_UniformMgrsError ==
    /\ LibraryThrew => (alertMsg = InvalidMgrs /\ result.kind # "coordinates")
    /\ (input.kind = "coordinates" /\ input.format = "mgrs") =>
          \A library \in MgrsLibraryOutcomes :
              library.throws => alertMsg # library.message

\* The library threw on a grid reference typed in lower case with spaces.
C10_Witness ==
    /\ LibraryThrew
    /\ Len(input.cleaned) < Len(input.mgrs)
    /\ input.library.message = "MGRSPoint zone letter invalid"
    /\ alertMsg = InvalidMgrs

-----------------------------------------------------------------------------
(* Fly-by turn anticipation                                                 *)

\* The last application was one of computeTurnAnticipationDistance to a bank angle
\* and a ground speed the form accepts: 0 < bank < 90, speed > 0.
FlybyApplied ==
    /\ input.kind = "computeTurnAnticipationDistance"
    /\ ~IsNaN(input.arguments[1]) /\ input.arguments[1] > 0 /\ input.arguments[1] < 90
    /\ ~IsNaN(input.arguments[2]) /\ input.arguments[2] > 0

\* The smallest angle between two tracks, in millionths of a degree, whatever lies
\* below a millionth left out.
TrackChange(inbound, outbound) ==
    IF ((outbound.v - inbound.v) % (360 * Million)) > 180 * Million
    THEN 360 * Million - ((outbound.v - inbound.v) % (360 * Million))
    ELSE (outbound.v - inbound.v) % (360 * Million)

AppliedTrackChange == TrackChange(input.arguments[3], input.arguments[4])

\* C11: with a valid bank angle and ground speed, computeTurnAnticipationDistance
\* raises the "179 deg or less" error whenever the smallest angle between the tracks
\* is above 179 degrees, the exact reversal of 180 included, and returns a result for
\* every turn angle of 179 degrees or less.
C11_Reversal ==
    FlybyApplied =>
        IF AppliedTrackChange > 179 * Million
        THEN result.value = Thrown("Turn difference must be 179 deg or less for this model.")
        ELSE result.value.ok

\* A reversal of exactly 180 degrees, inbound 90 and outbound 270, was refused.
C11_Witness ==
    /\ FlybyApplied
    /\ input.arguments[3] = Degrees(90)
    /\ input.arguments[4] = Degrees(270)
    /\ AppliedTrackChange = 180 * Million
    /\ ~result.value.ok

\* C12 as claimed: when the smallest turn angle is below 1e-6 degrees, inbound 0 and
\* outbound 360 included, the result has turn angle 0, infinite radius and zero lead.
C12_StraightIsZero ==
    (FlybyApplied /\ AppliedTrackChange = 0) =>
        result.value = [ok |-> TRUE, turnAngleDeg |-> Zero, turnRadiusM |-> Infinity,
                        leadDistanceM |-> 0, leadDistanceNM |-> 0]

\* C12, amended: when the smallest turn angle is below 1e-6 degrees no error is
\* raised and the result has infinite radius and zero lead; its turn angle is the
\* angle computed, which is below 1e-6 and is 0 when the two tracks are the same
\* direction, as inbound 0 and outbound 360 are.
C12_StraightIsNoTurn ==
    (FlybyApplied /\ AppliedTrackChange = 0) =>
        /\ result.value.ok
        /\ result.value.turnRadiusM = Infinity
        /\ result.value.leadDistanceM = 0
        /\ result.value.leadDistanceNM = 0
        /\ ~FlLess(result.value.turnAngleDeg, Zero)
        /\ FlLess(result.value.turnAngleDeg, STRAIGHT_TRACK_CHANGE_EPS_DEG)
        /\ input.arguments[3].t = input.arguments[4].t => result.value.turnAngleDeg = Zero

\* Inbound 0 and an outbound track far below a millionth of a degree: the result
\* carries that angle.
C12_Witness ==
    /\ FlybyApplied
    /\ input.arguments[3] = Zero
    /\ input.arguments[4] = Tiny(5000)
    /\ result.value.ok
    /\ result.value.turnAngleDeg = Tiny(5000)
    /\ result.value.turnRadiusM = Infinity

-----------------------------------------------------------------------------
(* Turn performance                                                         *)

\* The last run of the turn calculator was given a speed above 0 and a bank angle
\* of 0 or less, or of 90 or more.
DegenerateBankEntered ==
    /\ input.kind = "turn-calculator"
    /\ ~IsNaN(input.speed) /\ input.speed > 0
    /\ ~IsNaN(input.bankAngle)
    /\ (input.bankAngle <= 0 \/ input.bankAngle >= 90)

\* C13: for a speed above 0 and a bank angle of 0 or less or of 90 or more, the turn
\* calculation raises no error and publishes an infinite radius and an infinite time
\* for 360 degrees, never a finite or negative value.
C13_DegenerateBank ==
    DegenerateBankEntered =>
        /\ alertMsg = ""
        /\ result.kind = "turn-calculator"
        /\ result.radiusMeters = Infinity
        /\ result.time360Seconds = Infinity

\* The last application was one of calculateTurn to a bank angle between 0 and 90
\* degrees, both excluded.
TurnApplied ==
    /\ input.kind = "calculateTurn"
    /\ input.arguments[1] > 0
    /\ input.arguments[2] > 0 /\ input.arguments[2] < 90

\* C14 as claimed: at a fixed speed above 0 the radius calculateTurn returns strictly
\* decreases as the bank angle increases within (0, 90): radius(b) < radius(a) for
\* bank angles a < b.
C14_StrictlyDecreasing ==
    TurnApplied =>
        \A a \in 1 .. input.arguments[2] - 1 :
            result.value.radiusMeters < calculateTurn(input.arguments[1], a).radiusMeters

\* C14, amended: at a fixed speed above 0 the radius calculateTurn returns, which is
\* rounded to the whole metre, never increases as the bank angle increases within
\* (0, 90): radius(b) <= radius(a) for bank angles a < b.
C14_NeverIncreasing ==
    TurnApplied =>
        \A a \in 1 .. input.arguments[2] - 1 :
            result.value.radiusMeters <= calculateTurn(input.arguments[1], a).radiusMeters

\* At 10 knots the bank angles 45 and 46 give the same radius of 3 metres, and 30 a
\* larger one.
C14_Witness ==
    /\ TurnApplied
    /\ input.arguments = <<10, 46>>
    /\ result.value.radiusMeters = 3
    /\ calculateTurn(10, 45).radiusMeters = 3
    /\ calculateTurn(10, 30).radiusMeters > 3

-----------------------------------------------------------------------------
(* Approach table                                                           *)

\* C15: a table generated with distance unit NM has exactly 10 rows, at the whole
\* nautical miles 1 to 10; one generated with distance unit km has exactly 20 rows,
\* at the whole kilometres 1 to 20.
C15_RowsPerUnit ==
    Published("approach-table") =>
        IF input.distanceUnit = "km"
        THEN /\ DOMAIN result.rows = 1 .. 20
             /\ \A i \in DOMAIN result.rows : result.rows[i].distanceKM = 1000 * i
        ELSE /\ DOMAIN result.rows = 1 .. 10
             /\ \A i \in DOMAIN result.rows : result.rows[i].distanceNM = 1000 * i

\* The last application was one of calculateApproachTable to a slope from 0 to 60
\* degrees.
ApproachApplied ==
    /\ input.kind = "calculateApproachTable"
    /\ ~FlLess(input.arguments[4], Zero)
    /\ ~FlLess(Degrees(60), input.arguments[4])

\* Rows i and j of the table just computed, i before j.
RowPairs == {p \in (DOMAIN result.value) \X (DOMAIN result.value) : p[1] < p[2]}

NeverDecreasing ==
    \A p \in RowPairs :
        /\ ~FlLess(result.value[p[2]].heightAbove, result.value[p[1]].heightAbove)
        /\ ~FlLess(result.value[p[2]].altitudeAbove, result.value[p[1]].altitudeAbove)

HeightStrictlyIncreasing ==
    \A p \in RowPairs : FlLess(result.value[p[1]].heightAbove, result.value[p[2]].heightAbove)

AltitudeStrictlyIncreasing ==
    \A p \in RowPairs : FlLess(result.value[p[1]].altitudeAbove, result.value[p[2]].altitudeAbove)

\* C16 as claimed: for a slope in [0, 60] heightAbove and altitudeAbove increase
\* monotonically over the rows, strictly when the slope is above 0.
C16_Increasing ==
    ApproachApplied =>
        /\ NeverDecreasing
        /\ FlLess(Zero, input.arguments[4]) =>
              (HeightStrictlyIncreasing /\ AltitudeStrictlyIncreasing)

\* C16, amended: for a slope in [0, 60] heightAbove and altitudeAbove never decrease
\* over the rows; for a slope above 0 heightAbove increases strictly, and
\* altitudeAbove increases strictly unless the height gained from row to row is too
\* small to change the sum with the target altitude (a slope of a millionth of a
\* degree or more on the altitudes of the model is never that small).
C16_NeverDecreasing ==
    ApproachApplied =>
        /\ NeverDecreasing
        /\ FlLess(Zero, input.arguments[4]) => HeightStrictlyIncreasing
        /\ (input.arguments[4].v > 0 \/ (FlLess(Zero, input.arguments[4]) /\ input.arguments[3] = Zero))
              => AltitudeStrictlyIncreasing

\* A table for a slope above 0 but far below a millionth of a degree on a target
\* altitude of 1500 ft: the heights increase, every altitude is the target altitude.
C16_Witness ==
    /\ ApproachApplied
    /\ input.arguments[3] = Exact(150000)
    /\ input.arguments[4] = Tiny(1)
    /\ HeightStrictlyIncreasing
    /\ \A i \in DOMAIN result.value : result.value[i].altitudeAbove = Exact(150000)

\* The slope is a number from 0 to 60 degrees, both included.
SlopeInRange(slopeAngle) ==
    /\ ~IsNaN(slopeAngle.v)
    /\ ~FlLess(slopeAngle, Zero)
    /\ ~FlLess(Degrees(60), slopeAngle)

\* C17: a request for an approach table (with a valid target altitude) is accepted
\* exactly when the slope is within [0, 60] degrees, both ends included; a slope
\* outside raises the validation error and leaves the rows generated before as they
\* were.
C17_SlopeRange ==
    [][(input'.kind = "approach-table" /\ ~IsNaN(input'.targetAltitude)) =>
           IF SlopeInRange(input'.slopeAngle)
           THEN alertMsg' = "" /\ result'.kind = "approach-table"
           ELSE alertMsg' = "Please enter a valid slope angle (0-60 deg)" /\ result' = result]_vars

-----------------------------------------------------------------------------
(* Angles and wind                                                          *)

\* C18: for every finite input normalizeDegrees returns a value v with 0 <= v < 360
\* that is congruent to the input modulo 360 (checked for the inputs that are whole
\* millionths of a degree), and raises nothing.
C18_NormalizedRange ==
    input.kind = "normalizeDegrees" =>
        /\ ~FlLess(result.value, Zero)
        /\ FlLess(result.value, Degrees(360))
        /\ input.arguments[1].t = 0 =>
              ((result.value.v - input.arguments[1].v) % (360 * Million)) = 0

\* C19: for a heading and a wind direction in [0, 360], a true airspeed and a wind
\* speed of 0 or more, calculateGroundVector returns a ground speed of 0 or more and
\* a ground track in [0, 360): never 360, never negative.
C19_GroundVectorRange ==
    (/\ input.kind = "calculateGroundVector"
     /\ ~FlLess(input.arguments[1], Zero) /\ ~FlLess(Degrees(360), input.arguments[1])
     /\ ~FlLess(input.arguments[3], Zero) /\ ~FlLess(Degrees(360), input.arguments[3])
     /\ input.arguments[2] >= 0
     /\ input.arguments[4] >= 0) =>
        /\ result.value.groundSpeed >= 0
        /\ ~FlLess(result.value.groundTrack, Zero)
        /\ FlLess(result.value.groundTrack, Degrees(360))

\* The last application was one of calculateWindComponents.
WindApplied == input.kind = "calculateWindComponents"

\* C20: the crosswind side is 'none' exactly when the absolute crosswind is below
\* 0.05 knots, 'right' exactly when the crosswind is 0.05 or more, 'left' exactly when
\* it is -0.05 or less; a wind direction equal to the heading gives 'none'.
C20_CrosswindSide ==
    WindApplied =>
        /\ result.value.crosswindFrom = "none"
              <=> FlLess(FlAbs(result.value.crosswind), Exact(CROSSWIND_THRESHOLD))
        /\ result.value.crosswindFrom = "right"
              <=> ~FlLess(result.value.crosswind, Exact(CROSSWIND_THRESHOLD))
        /\ result.value.crosswindFrom = "left"
              <=> ~FlLess(Exact(-CROSSWIND_THRESHOLD), result.value.crosswind)
        /\ input.arguments[2] = input.arguments[3] => result.value.crosswindFrom = "none"

\* A wind of 0.2 knots from 15 degrees right of the heading: a crosswind of 0.052
\* knots, just above the threshold, from the right.
C20_Witness ==
    /\ WindApplied
    /\ input.arguments = <<2, Degrees(15), Zero>>
    /\ result.value.crosswind.v >= CROSSWIND_THRESHOLD
    /\ result.value.crosswind.v < CROSSWIND_THRESHOLD + 2000
    /\ result.value.crosswindFrom = "right"

-----------------------------------------------------------------------------
(* Distance, speed and fuel conversion                                      *)

\* The place of a double that is not negative among the doubles in increasing order.
Ordinal(x) ==
    IF x.m = <<>> THEN <<>>
    ELSE BigAdd(ShiftLeft(BigOfInt(x.e + 1200), 52), BigSub(x.m, ShiftLeft(<<1>>, 52)))

\* How many doubles lie from x to y.
DoublesApart(x, y) ==
    IF BigCompare(Ordinal(x), Ordinal(y)) >= 0
    THEN BigSub(Ordinal(x), Ordinal(y))
    ELSE BigSub(Ordinal(y), Ordinal(x))

\* A value was converted to the unit it was given in.
IdentityApplied ==
    \/ result.kind \in {"convertDistance", "convertSpeed"}
       /\ input.arguments[2] = input.arguments[3]
    \/ result.kind = "convertFuel"

IdentityValue ==
    IF result.kind = "convertFuel" THEN result.value[input.arguments[2]] ELSE result.value

\* The units whose factor is 1 in both directions.
BaseUnits == {"m", "ms", "liters"}

DensityRefusable(density) == density.kind # "num" \/ ~DoubleLess(DoubleZero, density)

\* C22: a fuel conversion whose density is non-positive or non-finite (zero, negative,
\* NaN or infinite) is rejected with a validation error and publishes no result.
C22_DensityRejected ==
    [][(input'.kind = "fuel" /\ DensityRefusable(input'.density)) =>
           alertMsg' # "" /\ result' = result]_vars

-----------------------------------------------------------------------------
(* Every tool                                                               *)

\* C23: when a calculate or convert action fails validation, no result derived from
\* the rejected input is published: after the action the tool's result is exactly
\* what it was before the action, or empty, never a partially updated result.
C23_NoPartialResult ==
    [][(input'.kind # "none" /\ alertMsg' # "") => (result' = result \/ result' = Null)]_vars

\* A coordinate conversion was refused while the result of an earlier one is shown.
C23_Witness ==
    /\ input.kind = "coordinates"
    /\ alertMsg # ""
    /\ result.kind = "coordinates"

\* What the handler of input i's tool publishes for i when the tool was mounted
\* a moment ago and has published nothing.
FreshResult(v, i) ==
    CASE i.kind = "minima" ->
           [kind |-> "minima"] @@
           calculateMinima(i.oca, i.och, i.aircraftMinima, i.operatorMargin)
      [] i.kind = "altitude-correction" ->
           [kind |-> "altitude-correction"] @@
           calculateTemperatureCorrection(v, i.decisionAlt, i.airportAlt, i.temperature)
      [] i.kind = "coordinates" ->
           LET pair == parseCoordinates(v, i.format, i.lat, i.lon, i.mgrs, i.library)
           IN  [kind |-> "coordinates", lat |-> pair.lat, lon |-> pair.lon,
                texts |-> buildCoordinateResults(v, pair.lat, pair.lon)]
      [] i.kind = "flyby-turn" ->
           FlybyResult(computeTurnAnticipationDistance(i.bankAngle, i.groundSpeed,
                                                       i.inboundTrack, i.outboundTrack),
                       i.unit)
      [] i.kind = "turn-calculator" ->
           [kind |-> "turn-calculator"] @@ calculateTurn(i.speed, i.bankAngle)
      [] i.kind = "approach-table" ->
           [kind |-> "approach-table",
            rows |-> ApproachTableOf(v, i.revision,
                                     TargetAltitudeFt(i.targetAltitude, i.altitudeUnit),
                                     i.slopeAngle, i.distanceUnit)]
      [] i.kind = "head-cross-wind" ->
           [kind |-> "head-cross-wind"] @@
           calculateWindComponents(i.speed, normalizeDegrees(i.direction),
                                   normalizeDegrees(i.heading))
      [] i.kind = "track-ground-speed" ->
           [kind |-> "track-ground-speed"] @@
           calculateGroundVector(normalizeDegrees(i.heading), i.tas,
                                 normalizeDegrees(i.windDirection), i.windSpeed)
      [] i.kind = "distance" ->
           [kind |-> "distance"] @@
           [u \in DistanceUnit |->
              formatDistance(convertDistance(i.value, i.unit, u)) \o <<" ", DistanceLabel[u]>>]
      [] i.kind = "speed" ->
           [kind |-> "speed"] @@
           [u \in SpeedUnit |->
              formatSpeed(convertSpeed(i.value, i.unit, u)) \o <<" ", SpeedLabel[u]>>]
      [] i.kind = "fuel" ->
           FuelResult(v, convertFuel(i.value, i.unit, i.density))

-----------------------------------------------------------------------------
(* Fly-by turn: result and error message                                    *)

\* C25: after every completed calculate() of the fly-by turn component exactly one of
\* result and errorMessage is non-null: a failed calculation leaves no result and an
\* error message, a successful one a result and no error message.
C25_ResultXorError ==
    input.kind = "flyby-turn" =>
        /\ (result # Null) # (alertMsg # "")
        /\ result # Null => result.kind = "flyby-turn"

\* A calculation refused for its bank angle: the message is set and no result is shown.
C25_Witness ==
    /\ input.kind = "flyby-turn"
    /\ input.bankAngle = 0
    /\ alertMsg = "Bank angle must be greater than 0 deg and less than 90 deg."
    /\ result = Null

-----------------------------------------------------------------------------
(* Minima: the altitude and the height are raised alike                     *)

MinimaInDoublesApplied == result.kind = "calculateMinima"

\* decisionAltitude - oca and decisionHeight - och, as the doubles the subtractions give
AltitudeRaise == DoubleMinus(result.value.decisionAltitude, Literal(input.arguments[1], 10))
HeightRaise == DoubleMinus(result.value.decisionHeight, Literal(input.arguments[2], 10))

WholeFeet == \A k \in 1 .. 4 : input.arguments[k] % 10 = 0

DoubleMagnitude(x) == IF x.kind = "nan" THEN x ELSE [x EXCEPT !.neg = FALSE]

-----------------------------------------------------------------------------
(* The 'Copied!' indicator                                                  *)

\* C27: the 'Copied!' indicator set by a successful copy of a field stays on that
\* field for the full 1500 ms after that copy unless a new conversion resets it: a
\* reset timer scheduled by an earlier copy never clears the indicator set by a later
\* copy.
C27_IndicatorStays ==
    (lastCopy.field # "none" /\ now < lastCopy.time + COPIED_MS) =>
        copiedField = lastCopy.field

-----------------------------------------------------------------------------
(* The shell                                                                *)

\* Start-up is over once the theme has been applied to the document.
Started == applied # "none"

\* C28: after start-up and after any sequence of theme toggles the applied theme is
\* 'light' or 'dark' and the value stored under 'aviation-tools-theme' equals the
\* applied theme, whatever value the store held at start-up.
C28_ThemeStored ==
    Started => (applied \in {"light", "dark"} /\ store = applied)

\* C29: in any sequence of showTool and clear calls at most one tool is current, and
\* every tool that was rendered has destroy() called exactly once before another tool
\* is rendered or the container is cleared: the current tool has one render() not yet
\* followed by destroy(), every other tool has as many destroy() calls as render()
\* calls.
C29_OneToolRendered ==
    \A t \in Tools : rendered[t] = IF tool = t THEN 1 ELSE 0

\* The class-based container shows the fuel conversion, and no other tool is rendered.
C29_Witness ==
    /\ variant = "vanilla"
    /\ tool = "fuel-conversion"
    /\ rendered["fuel-conversion"] = 1
    /\ \A t \in Tools \ {tool} : rendered[t] = 0

\* The entries the Angular menu shows, both groups together.
MenuEntries == IdsOf(getToolsByIds(navigationToolIds)) \cup IdsOf(getToolsByIds(conversionToolIds))

\* C30: every tool id listed in the Angular menu's navigation or conversion group
\* resolves to a tool in the registered tools list, and every registered tool appears
\* in one of the two groups.
C30_MenuCoversTools ==
    variant = "angular" =>
        /\ getToolsByIds(navigationToolIds) = navigationToolIds
        /\ getToolsByIds(conversionToolIds) = conversionToolIds
        /\ MenuEntries = IdsOf(tools)

=============================================================================
